---- MODULE Spec2Model ----
(***************************************************************************)
(* Plate-detection pipeline of carscan (src/src/app/page.tsx, component    *)
(* Home, lines 18-1190): the text functions normalizePlate / extractPlate  *)
(* as operators over character sequences, and the asynchronous handlers    *)
(* handleDetectPlate / runOcr / handleResumeCamera / startCamera as a      *)
(* state machine with one action per await point.                          *)
(***************************************************************************)
EXTENDS Integers, Sequences, FiniteSets, TLC

(***************************************************************************)
(* Characters and strings.  A string is a sequence of one-character        *)
(* strings.                                                                *)
(***************************************************************************)
UpperLetters ==
  <<"A","B","C","D","E","F","G","H","I","J","K","L","M",
    "N","O","P","Q","R","S","T","U","V","W","X","Y","Z">>

LowerLetters ==
  <<"a","b","c","d","e","f","g","h","i","j","k","l","m",
    "n","o","p","q","r","s","t","u","v","w","x","y","z">>

DigitChars == {"0","1","2","3","4","5","6","7","8","9"}

Range(s) == {s[i] : i \in 1..Len(s)}

UpperSet == Range(UpperLetters)

LowerSet == Range(LowerLetters)

\* [A-Z]
IsLetter(c) == c \in UpperSet

\* \d
IsDigit(c) == c \in DigitChars

\* [A-Z0-9]
IsAlnum(c) == IsLetter(c) \/ IsDigit(c)

\* \s, for the white space that occurs in the inputs
IsSpace(c) == c \in {" ", "\t", "\n"}

\* String.prototype.toUpperCase on one character: a-z map to A-Z, the sharp s
\* expands to two characters, every other character is kept.
UpperChar(c) ==
  IF c \in LowerSet
    THEN <<UpperLetters[CHOOSE i \in 1..Len(LowerLetters) : LowerLetters[i] = c]>>
    ELSE IF c = "ß" THEN <<"S","S">> ELSE <<c>>

RECURSIVE toUpperCase(_)
toUpperCase(s) ==
  IF s = <<>> THEN <<>> ELSE UpperChar(Head(s)) \o toUpperCase(Tail(s))

\* s.replace(/[^A-Z0-9]/g, "")
RECURSIVE StripNonAlnum(_)
StripNonAlnum(s) ==
  IF s = <<>> THEN <<>>
  ELSE IF IsAlnum(Head(s)) THEN <<Head(s)>> \o StripNonAlnum(Tail(s))
  ELSE StripNonAlnum(Tail(s))

\* s.replace(/[^A-Z0-9]/g, " ")
RECURSIVE BlankNonAlnum(_)
BlankNonAlnum(s) ==
  IF s = <<>> THEN <<>>
  ELSE <<IF IsAlnum(Head(s)) THEN Head(s) ELSE " ">> \o BlankNonAlnum(Tail(s))

\* The text with its whitespace left in.
KeepSpace(s) == s

\* s.replace(/\s+/g, "")
RECURSIVE StripSpace(_)
StripSpace(s) ==
  IF s = <<>> THEN <<>>
  ELSE IF IsSpace(Head(s)) THEN StripSpace(Tail(s))
  ELSE <<Head(s)>> \o StripSpace(Tail(s))

\* s.trim()
RECURSIVE TrimLeft(_)
TrimLeft(s) ==
  IF s # <<>> /\ IsSpace(Head(s)) THEN TrimLeft(Tail(s)) ELSE s

RECURSIVE TrimRight(_)
TrimRight(s) ==
  IF s # <<>> /\ IsSpace(s[Len(s)]) THEN TrimRight(SubSeq(s, 1, Len(s) - 1)) ELSE s

trim(s) == TrimRight(TrimLeft(s))

NormalizeNoUpper(value) == StripNonAlnum(value)

\* const normalizePlate = (value) => value.toUpperCase().replace(/[^A-Z0-9]/g, "")
normalizePlate(value) == StripNonAlnum(toUpperCase(value))

\* The same normalisation, inlined in the DVLA route.
normalizedRegistration(rawRegistration) == StripNonAlnum(toUpperCase(rawRegistration))

\* /[A-Z]{2}\d{2}[A-Z]{3}/ anchored at position i of s
StrictAt(s, i) ==
  /\ i >= 1
  /\ i + 6 <= Len(s)
  /\ IsLetter(s[i]) /\ IsLetter(s[i + 1])
  /\ IsDigit(s[i + 2]) /\ IsDigit(s[i + 3])
  /\ IsLetter(s[i + 4]) /\ IsLetter(s[i + 5]) /\ IsLetter(s[i + 6])

\* s.match(/[A-Z]{2}\d{2}[A-Z]{3}/): the leftmost match, <<>> for null
StrictMatch(s) ==
  LET hits == {i \in 1..Len(s) : StrictAt(s, i)}
  IN  IF hits = {} THEN <<>>
      ELSE LET i == CHOOSE k \in hits : \A j \in hits : k <= j
           IN  SubSeq(s, i, i + 6)

\* Length of the run of [A-Z0-9] characters of s that starts at i, up to cap.
RECURSIVE AlnumRun(_, _, _)
AlnumRun(s, i, cap) ==
  IF cap = 0 \/ i > Len(s) \/ ~IsAlnum(s[i]) THEN 0
  ELSE 1 + AlnumRun(s, i + 1, cap - 1)

\* The loose pattern with its upper repetition bound off by one: {5,9}.
LooseMatchUpTo9(s) ==
  LET hits == {i \in 1..Len(s) : AlnumRun(s, i, 9) >= 5}
  IN  IF hits = {} THEN <<>>
      ELSE LET i == CHOOSE k \in hits : \A j \in hits : k <= j
           IN  SubSeq(s, i, i + AlnumRun(s, i, 9) - 1)

\* s.match(/[A-Z0-9]{5,8}/): the leftmost match, greedy, <<>> for null
LooseMatch(s) ==
  LET hits == {i \in 1..Len(s) : AlnumRun(s, i, 8) >= 5}
  IN  IF hits = {} THEN <<>>
      ELSE LET i == CHOOSE k \in hits : \A j \in hits : k <= j
           IN  SubSeq(s, i, i + AlnumRun(s, i, 8) - 1)

\* cleaned.split(/\s+/).filter(Boolean): the maximal runs of non-space characters
RECURSIVE SplitTokens(_, _)
SplitTokens(s, cur) ==
  IF s = <<>> THEN (IF cur = <<>> THEN <<>> ELSE <<cur>>)
  ELSE IF IsSpace(Head(s))
    THEN (IF cur = <<>> THEN <<>> ELSE <<cur>>) \o SplitTokens(Tail(s), <<>>)
    ELSE SplitTokens(Tail(s), Append(cur, Head(s)))

\* /^[A-Z]{2}\d{2}[A-Z]{3}$/.test(candidate)
StrictToken(t) == Len(t) = 7 /\ StrictAt(t, 1)

\* /^[A-Z0-9]{5,8}$/.test(candidate)
LooseToken(t) == Len(t) \in 5..8 /\ \A i \in 1..Len(t) : IsAlnum(t[i])

\* candidates.find(P), <<>> for undefined
FindStrictToken(ts) ==
  LET hits == {i \in 1..Len(ts) : StrictToken(ts[i])}
  IN  IF hits = {} THEN <<>> ELSE ts[CHOOSE k \in hits : \A j \in hits : k <= j]

FindLooseToken(ts) ==
  LET hits == {i \in 1..Len(ts) : LooseToken(ts[i])}
  IN  IF hits = {} THEN <<>> ELSE ts[CHOOSE k \in hits : \A j \in hits : k <= j]

\* extractPlate with the loose run tried before the strict pattern.
ExtractLooseFirst(rawText) ==
  LET condensed == StripSpace(BlankNonAlnum(toUpperCase(rawText)))
  IN  IF LooseMatch(condensed) # <<>> THEN LooseMatch(condensed)
      ELSE StrictMatch(condensed)

extractPlate(rawText) ==
  LET cleaned    == BlankNonAlnum(toUpperCase(rawText))
      condensed  == StripSpace(cleaned)
      strict     == StrictMatch(condensed)
      loose      == LooseMatch(condensed)
      candidates == SplitTokens(cleaned, <<>>)
  IN  IF strict # <<>> THEN strict
      ELSE IF loose # <<>> THEN loose
      ELSE IF FindStrictToken(candidates) # <<>> THEN FindStrictToken(candidates)
      ELSE IF FindLooseToken(candidates) # <<>> THEN FindLooseToken(candidates)
      ELSE <<>>

(***************************************************************************)
(* Detector decoding: candidates are records [box, score]; a score is the  *)
(* product obj * cls in hundredths, box coordinates are integers counting  *)
(* halves of a pixel (the unit of cx - bw / 2).                            *)
(***************************************************************************)
\* the divisor of bw / 2 and bh / 2: box coordinates count 1/2 pixels
CoordScale == 2

Max2(x, y) == IF x >= y THEN x ELSE y

Min2(x, y) == IF x <= y THEN x ELSE y

\* interArea without the Math.max(0, .) of either factor.
InterAreaUnclamped(a, b) ==
  (Min2(a[3], b[3]) - Max2(a[1], b[1])) * (Min2(a[4], b[4]) - Max2(a[2], b[2]))

\* interArea and the union of iou(a, b), before the division
InterArea(a, b) ==
  Max2(0, Min2(a[3], b[3]) - Max2(a[1], b[1])) * Max2(0, Min2(a[4], b[4]) - Max2(a[2], b[2]))

BoxArea(a) == Max2(0, a[3] - a[1]) * Max2(0, a[4] - a[2])

\* The divisor of iou(a, b): Math.max(1, boxAArea + boxBArea - interArea), the
\* 1 being one square pixel.
IouUnion(a, b) ==
  Max2(CoordScale * CoordScale, BoxArea(a) + BoxArea(b) - InterArea(a, b))

\* iou(a, b) > num/den, with iou = interArea / IouUnion
IouExceeds(a, b, num, den) == den * InterArea(a, b) > num * IouUnion(a, b)

\* A sort that is not stable: a candidate goes before those of equal score.
RECURSIVE InsertBeforeTies(_, _)
InsertBeforeTies(sorted, c) ==
  IF sorted = <<>> THEN <<c>>
  ELSE IF Head(sorted).score > c.score
    THEN <<Head(sorted)>> \o InsertBeforeTies(Tail(sorted), c)
    ELSE <<c>> \o sorted

\* [...boxes].sort((a, b) => b.score - a.score): stable, score descending
RECURSIVE InsertByScore(_, _)
InsertByScore(sorted, c) ==
  IF sorted = <<>> THEN <<c>>
  ELSE IF Head(sorted).score >= c.score
    THEN <<Head(sorted)>> \o InsertByScore(Tail(sorted), c)
    ELSE <<c>> \o sorted

RECURSIVE SortByScore(_)
SortByScore(boxes) ==
  IF boxes = <<>> THEN <<>>
  ELSE InsertByScore(SortByScore(SubSeq(boxes, 1, Len(boxes) - 1)), boxes[Len(boxes)])

\* The loop of nms without the inner loop that splices overlapping boxes out.
NmsLoopKeepAll(sorted, selected, num, den) == selected \o sorted

RECURSIVE NmsLoop(_, _, _, _)
NmsLoop(sorted, selected, num, den) ==
  IF sorted = <<>> THEN selected
  ELSE LET current == Head(sorted)
           Keep(c) == ~IouExceeds(current.box, c.box, num, den)
       IN  NmsLoop(SelectSeq(Tail(sorted), Keep), Append(selected, current), num, den)

\* nms(boxes, threshold) with threshold = num/den
nms(boxes, num, den) == NmsLoop(SortByScore(boxes), <<>>, num, den)

\* scoreThreshold of parseDetectorOutput(output, w, h, 0.3), in hundredths
ScoreThreshold == 30

\* parseDetectorOutput that keeps every candidate, whatever its score.
ParseNoThreshold(candidates) == nms(candidates, 4, 10)

\* parseDetectorOutput on decoded candidates: "if (score < scoreThreshold)
\* continue", then nms(candidates, 0.4)
parseDetectorOutput(candidates) ==
  LET Passes(c) == ~(c.score < ScoreThreshold)
  IN  nms(SelectSeq(candidates, Passes), 4, 10)

(***************************************************************************)
(* parseDetectorOutput on the raw tensor: data is the flat Float32Array     *)
(* (data[k] of the code is At(data, k)), dims the shape.  Raw coordinates  *)
(* are whole numbers; raw logits are 0, 40 and -800, whose sigmoid is      *)
(* exactly 0.5, 1 and 0 in double precision.                               *)
(***************************************************************************)
At(data, k) == data[k + 1]

Abs(v) == IF v < 0 THEN 0 - v ELSE v

\* sigmoid(value) = 1 / (1 + Math.exp(-value)), in hundredths
sigmoid(value) ==
  CASE value = 0 -> 50
    [] value >= 40 -> 100
    [] value <= 0 - 800 -> 0

\* Math.min(boxes, 50): the candidates sampled for maxCoord
SampleLimit == 50

\* dims[2] <= 10
MaxChannels == 10

\* One candidate from its raw channel values (obj and cls already through
\* sigmoid, or 1 when the channel is absent).
Candidate(x, y, w, h, obj, cls, normalized, inputWidth, inputHeight) ==
  LET scaleX == IF normalized THEN inputWidth ELSE 1
      scaleY == IF normalized THEN inputHeight ELSE 1
      cx == x * scaleX
      cy == y * scaleY
      bw == w * scaleX
      bh == h * scaleY
  IN  [box |-> <<CoordScale * cx - bw, CoordScale * cy - bh,
                 CoordScale * cx + bw, CoordScale * cy + bh>>,
       score |-> (obj * cls) \div 100]

\* Where channel c of candidate i is read: data[i * channels + c] in the
\* branch dims[2] <= 10, data[i + c * boxes] in the else branch.
TensorIndex(layout, i, c, boxes, channels) ==
  IF layout = "boxes-first" THEN i * channels + c ELSE i + c * boxes

\* normalized = maxCoord <= 1.5, maxCoord over the first four channels of the
\* sampled candidates
Normalized(data, boxes, channels, layout) ==
  \A i \in 0..(Min2(boxes, SampleLimit) - 1), c \in 0..3 :
    2 * Abs(At(data, TensorIndex(layout, i, c, boxes, channels))) <= 3

\* The candidate loop of either branch.
DecodeWith(data, boxes, channels, layout, inputWidth, inputHeight) ==
  LET normalized == Normalized(data, boxes, channels, layout)
      Value(i, c) == At(data, TensorIndex(layout, i, c, boxes, channels))
  IN  [n \in 1..boxes |->
         LET i == n - 1
         IN  Candidate(Value(i, 0), Value(i, 1), Value(i, 2), Value(i, 3),
                       IF channels > 4 THEN sigmoid(Value(i, 4)) ELSE 100,
                       IF channels > 5 THEN sigmoid(Value(i, 5)) ELSE 100,
                       normalized, inputWidth, inputHeight)]

\* the branch dims[2] <= 10
DecodeBoxesFirst(data, boxes, channels, inputWidth, inputHeight) ==
  DecodeWith(data, boxes, channels, "boxes-first", inputWidth, inputHeight)

\* The else branch reading with the stride of the other layout.
DecodeChannelsFirstWrongStride(data, boxes, channels, inputWidth, inputHeight) ==
  DecodeWith(data, boxes, channels, "boxes-first", inputWidth, inputHeight)

\* the else branch
DecodeChannelsFirst(data, boxes, channels, inputWidth, inputHeight) ==
  DecodeWith(data, boxes, channels, "channels-first", inputWidth, inputHeight)

\* parseDetectorOutput(output, inputWidth, inputHeight, 0.3) with
\* output.data = data and output.dims = dims
parseDetectorTensor(data, dims, inputWidth, inputHeight) ==
  IF Len(dims) # 3 THEN <<>>
  ELSE IF dims[3] <= MaxChannels
    THEN parseDetectorOutput(
           DecodeBoxesFirst(data, dims[2], dims[3], inputWidth, inputHeight))
    ELSE parseDetectorOutput(
           DecodeChannelsFirst(data, dims[3], dims[2], inputWidth, inputHeight))

(***************************************************************************)
(* The letterbox of prepareDetectorInput and prepareOcrInput and the crop  *)
(* mapping of handleDetectPlate.  scale is the fraction <<n, d>>.          *)
(***************************************************************************)
\* Math.max in place of the Math.min of scale: the image fills the canvas.
ScaleToFill(imgW, imgH, width, height) ==
  IF width * imgH >= height * imgW THEN <<width, imgW>> ELSE <<height, imgH>>

\* scale = Math.min(width / image.width, height / image.height)
ScaleOf(imgW, imgH, width, height) ==
  IF width * imgH <= height * imgW THEN <<width, imgW>> ELSE <<height, imgH>>

\* Math.round(n / d) for n >= 0: half-way values go up, unless the product
\* computed in floating point fell just below the half (tiesUp = FALSE).
Round(n, d, tiesUp) ==
  IF (2 * n) % (2 * d) = d /\ ~tiesUp THEN n \div d
  ELSE (2 * n + d) \div (2 * d)

\* scaledWidth, scaledHeight, padX, padY of either prepare function
Letterbox(imgW, imgH, width, height, tiesUp) ==
  LET scale == ScaleOf(imgW, imgH, width, height)
      scaledWidth == Round(imgW * scale[1], scale[2], tiesUp)
      scaledHeight == Round(imgH * scale[1], scale[2], tiesUp)
  IN  [scale |-> scale,
       scaledWidth |-> scaledWidth,
       scaledHeight |-> scaledHeight,
       padX |-> (width - scaledWidth) \div 2,
       padY |-> (height - scaledHeight) \div 2,
       width |-> width,
       height |-> height]

prepareDetectorInput(imgW, imgH, width, height, tiesUp) ==
  Letterbox(imgW, imgH, width, height, tiesUp)

\* OCR_INPUT.width and OCR_INPUT.height
OcrInputWidth == 140

OcrInputHeight == 70

prepareOcrInput(imgW, imgH, tiesUp) ==
  Letterbox(imgW, imgH, OcrInputWidth, OcrInputHeight, tiesUp)

\* The inverse mapping without the subtraction of the padding.
InverseNoPad(v, pad, scale) == v * scale[2]

\* (v - pad) / scale for v in half pixels, as the numerator over the
\* denominator CoordScale * scale[1]
Inverse(v, pad, scale) == (v - CoordScale * pad) * scale[2]

\* [x1, y1, x2, y2] passed to cropPlate, each over CoordScale * scale[1]
CropBox(box, prepared, imgW, imgH) ==
  LET den == CoordScale * prepared.scale[1]
  IN  <<Max2(0, Inverse(box[1], prepared.padX, prepared.scale)),
        Max2(0, Inverse(box[2], prepared.padY, prepared.scale)),
        Min2(imgW * den, Inverse(box[3], prepared.padX, prepared.scale)),
        Min2(imgH * den, Inverse(box[4], prepared.padY, prepared.scale))>>

\* cropPlate(image, box) up to the size of its canvas: width and height are
\* Math.max(1, x2 - x1) and Math.max(1, y2 - y1), the canvas takes their
\* Math.round; box coordinates are numerators over den
cropPlate(box, den, tiesUp) ==
  [width |-> Round(Max2(den, box[3] - box[1]), den, tiesUp),
   height |-> Round(Max2(den, box[4] - box[2]), den, tiesUp)]

(***************************************************************************)
(* The page component: React state, refs, and the handlers in flight.      *)
(***************************************************************************)
MaxAttempts == 2

MaxResumeWaiting == 1

\* handleLookup calls made in a behaviour, numbered in the order of the clicks
MaxLookups == 2

Lookups == 1..MaxLookups

\* vehicleData = null
NoVehicle == 0

RegistrationMissing == "Enter or detect a registration before lookup."

LookupFailed == "DVLA lookup failed. Check API credentials and try again."

Attempts == 1..MaxAttempts

\* useRef<number | null>(null): no timer id held
NoTimer == 0

\* useState<string | null>(null) for snapshotUrl
NoUrl == 0

\* useState<number | null>(null) for ocrConfidence
NullConfidence == -1

\* useState<string | null>(null) for detectedPlate
NullPlate == <<"null">>

NoError == "null"

ScanTimedOut == "Scan timed out. Please try again."

NoPlateDetected == "No plate detected. Try again with a clearer shot."

FrameUnreadable == "Unable to read camera frame."

DetectorInputFailed == "Unable to prepare detector input."

ImageUnreadable == "Unable to read image."

OcrInputFailed == "Unable to prepare OCR input."

\* error.message of a rejected InferenceSession.create / session.run
InferenceFailed == "inference failed"

\* What the user types into the manual entry field.
TypedInputs == { <<" ","a","-">> }

\* Decoded detector candidates of one run: none, one below the threshold, one
\* exactly on it, two overlapping boxes, two disjoint boxes.
DetectorOutputs ==
  { <<>>,
    <<[box |-> <<0, 0, 10, 10>>, score |-> 29]>>,
    <<[box |-> <<0, 0, 10, 10>>, score |-> 30]>>,
    <<[box |-> <<0, 0, 10, 10>>, score |-> 60], [box |-> <<1, 0, 11, 10>>, score |-> 80]>>,
    <<[box |-> <<0, 0, 10, 10>>, score |-> 10], [box |-> <<20, 0, 30, 10>>, score |-> 20]>> }

\* decodeOcrOutput results of one run: every slot padding, a UK plate, too few
\* characters, nine characters without the strict pattern.
OcrOutputs ==
  { [text |-> <<>>, confidence |-> 50],
    [text |-> <<"A","B","1","2","C","D","E">>, confidence |-> 87],
    [text |-> <<"A","B","C","D">>, confidence |-> 60],
    [text |-> <<"1","2","3","4","5","6","7","8","9">>, confidence |-> 40] }

(***************************************************************************)
(* decodeOcrOutput on the raw tensor.  Raw scores are 0 and -800, so that  *)
(* Math.exp(score - maxVal) is exactly 1 or 0.  A confidence is a fraction *)
(* <<numerator, denominator>>.                                             *)
(***************************************************************************)
OCR_ALPHABET ==
  <<"0","1","2","3","4","5","6","7","8","9">> \o UpperLetters \o <<"_">>

OCR_PAD == "_"

\* OCR_INPUT.maxSlots
OcrMaxSlots == 9

\* Math.exp(d) for d = 0 and for d below the underflow of a double
Exp(d) == CASE d = 0 -> 1 [] d < 0 - 745 -> 0

\* data[idx] is a number: idx lies inside the typed array (a read beyond its
\* end gives undefined)
Defined(data, idx) == idx < Len(data)

\* idx of the inner loops with the strides of the slot-major layout only.
OcrIndexSlotMajor(layout, slot, cls, slots, classes) == slot * classes + cls

\* idx of the inner loops
OcrIndex(layout, slot, cls, slots, classes) ==
  IF layout = "slots-first" THEN slot * classes + cls ELSE cls * slots + slot

\* The argmax loop taking the last of equal maxima (value >= maxVal).
ArgmaxLast(data, layout, slot, slots, classes) ==
  LET defined == {cls \in 0..(classes - 1) :
                    Defined(data, OcrIndex(layout, slot, cls, slots, classes))}
      maxIdx == CHOOSE c \in defined : \A d \in defined :
                  \/ At(data, OcrIndex(layout, slot, c, slots, classes))
                       > At(data, OcrIndex(layout, slot, d, slots, classes))
                  \/ /\ At(data, OcrIndex(layout, slot, c, slots, classes))
                          = At(data, OcrIndex(layout, slot, d, slots, classes))
                     /\ c >= d
  IN  IF defined = {} THEN [none |-> TRUE, maxVal |-> 0, maxIdx |-> 0]
      ELSE [none |-> FALSE,
            maxVal |-> At(data, OcrIndex(layout, slot, maxIdx, slots, classes)),
            maxIdx |-> maxIdx]

\* maxVal and maxIdx after the first inner loop, none standing for maxVal =
\* -Infinity.  The loop replaces them only on value > maxVal, which is false
\* for undefined: it ends on the largest number read and the first class
\* that holds it, or as it began when no number was read.
Argmax(data, layout, slot, slots, classes) ==
  LET defined == {cls \in 0..(classes - 1) :
                    Defined(data, OcrIndex(layout, slot, cls, slots, classes))}
      maxIdx == CHOOSE c \in defined : \A d \in defined :
                  \/ At(data, OcrIndex(layout, slot, c, slots, classes))
                       > At(data, OcrIndex(layout, slot, d, slots, classes))
                  \/ /\ At(data, OcrIndex(layout, slot, c, slots, classes))
                          = At(data, OcrIndex(layout, slot, d, slots, classes))
                     /\ c <= d
  IN  IF defined = {} THEN [none |-> TRUE, maxVal |-> 0, maxIdx |-> 0]
      ELSE [none |-> FALSE,
            maxVal |-> At(data, OcrIndex(layout, slot, maxIdx, slots, classes)),
            maxIdx |-> maxIdx]

\* expSum is NaN: one of its terms is Math.exp(undefined - maxVal), or maxVal
\* is still -Infinity
ExpSumIsNaN(data, layout, slot, slots, classes, best) ==
  \/ best.none
  \/ \E cls \in 0..(classes - 1) :
       ~Defined(data, OcrIndex(layout, slot, cls, slots, classes))

\* The second inner loop: expSum, when it is a number, over the classes from
\* lo up to hi - 1, summed by halves
RECURSIVE ExpSum(_, _, _, _, _, _, _, _)
ExpSum(data, layout, slot, slots, classes, lo, hi, maxVal) ==
  IF hi <= lo THEN 0
  ELSE IF hi = lo + 1
    THEN Exp(At(data, OcrIndex(layout, slot, lo, slots, classes)) - maxVal)
  ELSE ExpSum(data, layout, slot, slots, classes, lo, (lo + hi) \div 2, maxVal)
       + ExpSum(data, layout, slot, slots, classes, (lo + hi) \div 2, hi, maxVal)

\* avgConfidence = null, among fractions
NullFraction == <<>>

RECURSIVE Gcd(_, _)
Gcd(a, b) == IF b = 0 THEN a ELSE Gcd(b, a % b)

\* a + b for fractions, in lowest terms
AddFractions(a, b) ==
  LET num == a[1] * b[2] + b[1] * a[2]
      den == a[2] * b[2]
  IN  <<num \div Gcd(num, den), den \div Gcd(num, den)>>

\* One round of the loop over the slots: the character the slot adds to the
\* text (none for the padding) and the confidence it adds to confidenceSum.
DecodeSlot(data, layout, slots, classes, slot) ==
  LET best == Argmax(data, layout, slot, slots, classes)
      nan == ExpSumIsNaN(data, layout, slot, slots, classes, best)
      expSum == ExpSum(data, layout, slot, slots, classes, 0, classes, best.maxVal)
      char == OCR_ALPHABET[best.maxIdx + 1]
  IN  [text |-> IF char # OCR_PAD THEN <<char>> ELSE <<>>,
       confidenceSum |-> IF ~nan /\ expSum # 0 THEN <<1, expSum>> ELSE <<0, 1>>]

\* The loop over the slots from lo up to hi - 1: text and confidenceSum, put
\* together by halves
RECURSIVE DecodeSlots(_, _, _, _, _, _)
DecodeSlots(data, layout, slots, classes, lo, hi) ==
  IF hi <= lo THEN [text |-> <<>>, confidenceSum |-> <<0, 1>>]
  ELSE IF hi = lo + 1 THEN DecodeSlot(data, layout, slots, classes, lo)
  ELSE LET first == DecodeSlots(data, layout, slots, classes, lo, (lo + hi) \div 2)
           second == DecodeSlots(data, layout, slots, classes, (lo + hi) \div 2, hi)
       IN  [text |-> first.text \o second.text,
            confidenceSum |-> AddFractions(first.confidenceSum, second.confidenceSum)]

\* decodeOcrOutput giving up on a shape it does not recognise: no text and a
\* null confidence.
decodeOcrKnownShapes(data, dims) ==
  LET classes == Len(OCR_ALPHABET)
      slotsFirst == Len(dims) = 3 /\ dims[3] = classes
      classesFirst == Len(dims) = 3 /\ dims[3] # classes /\ dims[2] = classes
      slots == IF slotsFirst THEN dims[2] ELSE IF classesFirst THEN dims[3] ELSE 0
      layout == IF classesFirst THEN "classes-first" ELSE "slots-first"
      acc == DecodeSlots(data, layout, slots, classes, 0, slots)
  IN  [text |-> acc.text,
       confidence |-> IF slots # 0
                        THEN <<acc.confidenceSum[1] * 100, acc.confidenceSum[2] * slots>>
                        ELSE NullFraction]

\* decodeOcrOutput(output) with output.data = data and output.dims = dims;
\* the confidence is (confidenceSum / slots) * 100 or null
decodeOcrOutput(data, dims) ==
  LET classes == Len(OCR_ALPHABET)
      slotsFirst == Len(dims) = 3 /\ dims[3] = classes
      classesFirst == Len(dims) = 3 /\ dims[3] # classes /\ dims[2] = classes
      slots == IF slotsFirst THEN dims[2]
               ELSE IF classesFirst THEN dims[3] ELSE OcrMaxSlots
      layout == IF classesFirst THEN "classes-first" ELSE "slots-first"
      acc == DecodeSlots(data, layout, slots, classes, 0, slots)
  IN  [text |-> acc.text,
       confidence |-> IF slots # 0
                        THEN <<acc.confidenceSum[1] * 100, acc.confidenceSum[2] * slots>>
                        ELSE NullFraction]

VARIABLES
  cameraReady,        \* useState(false)
  snapshotUrl,        \* useState<string | null>(null)
  plateInput,         \* useState("")
  detectedPlate,      \* useState<string | null>(null)
  ocrStatus,          \* useState("idle")
  ocrError,           \* useState<string | null>(null)
  ocrConfidence,      \* useState<number | null>(null)
  detectorSessionRef, \* useRef<ort.InferenceSession | null>(null): TRUE when set
  ocrSessionRef,      \* useRef<ort.InferenceSession | null>(null): TRUE when set
  ocrTimeoutRef,      \* useRef<number | null>(null)
  streamRef,          \* useRef<MediaStream | null>(null): TRUE when set
  cameraStartingRef,  \* useRef(false)
  timerPending,       \* the timers set by window.setTimeout that can still fire
  camPc,              \* the await the startCamera call in flight is at
  resumeWaiting,      \* handleResumeCamera calls in their 300 ms wait
  pc,                 \* per handleDetectPlate call: the await it is at
  trimmed,            \* per handleDetectPlate call: its const trimmed
  started,            \* handleDetectPlate calls that passed the guards
  timedOut,           \* the calls in flight whose 15 s timer has fired
  detectorCreated,    \* InferenceSession.create was called for the detector
  ocrCreated          \* InferenceSession.create was called for the OCR model

\* The DVLA lookup of the page: its React state and the handleLookup calls
\* in flight.
VARIABLES
  lookupStatus,       \* useState("idle")
  lookupError,        \* useState<string | null>(null)
  vehicleData,        \* useState<VehicleData | null>(null): the call it answers
  lookupPc,           \* per handleLookup call: the await it is at
  lookupStarted       \* handleLookup calls made

reactVars == <<cameraReady, snapshotUrl, plateInput, detectedPlate, ocrStatus,
               ocrError, ocrConfidence>>

lookupVars == <<lookupStatus, lookupError, vehicleData, lookupPc, lookupStarted>>

refVars == <<detectorSessionRef, ocrSessionRef, ocrTimeoutRef, streamRef,
             cameraStartingRef>>

cameraVars == <<camPc, resumeWaiting>>

attemptVars == <<pc, trimmed, started, timedOut, detectorCreated, ocrCreated>>

scanVars == <<reactVars, refVars, timerPending, cameraVars, attemptVars>>

pageVars == <<scanVars, lookupVars>>

\* The page after mount: useEffect has called startCamera, which awaits
\* getUserMedia.
PageInit ==
  /\ cameraReady = FALSE
  /\ snapshotUrl = NoUrl
  /\ plateInput = <<>>
  /\ detectedPlate = NullPlate
  /\ ocrStatus = "idle"
  /\ ocrError = NoError
  /\ ocrConfidence = NullConfidence
  /\ detectorSessionRef = FALSE
  /\ ocrSessionRef = FALSE
  /\ ocrTimeoutRef = NoTimer
  /\ streamRef = FALSE
  /\ cameraStartingRef = TRUE
  /\ timerPending = {}
  /\ camPc = "getUserMedia"
  /\ resumeWaiting = 0
  /\ pc = [a \in Attempts |-> "idle"]
  /\ trimmed = [a \in Attempts |-> <<>>]
  /\ started = 0
  /\ timedOut = {}
  /\ detectorCreated = FALSE
  /\ ocrCreated = FALSE
  /\ lookupStatus = "idle"
  /\ lookupError = NoError
  /\ vehicleData = NoVehicle
  /\ lookupPc = [l \in Lookups |-> "idle"]
  /\ lookupStarted = 0

(***************************************************************************)
(* Helpers shared by the handlers.                                         *)
(***************************************************************************)
\* null, or an id that has fired, changes nothing)
TimersAfterClear == timerPending \ {ocrTimeoutRef}

\* stopCamera: streamRef's tracks are stopped, the ref and cameraReady reset
stopCamera ==
  /\ streamRef' = FALSE
  /\ cameraReady' = FALSE

\* The call returns.
Return(a) ==
  /\ pc' = [pc EXCEPT ![a] = "done"]
  /\ timedOut' = timedOut \ {a}

\* The call goes on to its next await.
Await(a, stage) ==
  /\ pc' = [pc EXCEPT ![a] = stage]
  /\ UNCHANGED timedOut

\* The catch block of handleDetectPlate, which ends the call.
CatchScanError(a, message) ==
  /\ ocrStatus' = "error"
  /\ ocrError' = message
  /\ timerPending' = TimersAfterClear
  /\ ocrTimeoutRef' = NoTimer
  /\ Return(a)

\* The catch block of runOcr: it returns "", so handleDetectPlate stores
\* nothing and ends.
CatchOcrError(a, message) ==
  /\ ocrStatus' = "error"
  /\ ocrError' = message
  /\ timerPending' = TimersAfterClear
  /\ ocrTimeoutRef' = NoTimer
  /\ Return(a)

(***************************************************************************)
(* handleDetectPlate, one action per await.                                *)
(***************************************************************************)
\* The click keeping the typed text as it stands, not normalized.
HandleDetectPlateRaw(a) ==
  /\ a = started + 1
  /\ a <= MaxAttempts
  /\ ocrStatus # "loading"
  /\ cameraReady
  /\ started' = a
  /\ pc' = [pc EXCEPT ![a] = "captureFrame"]
  /\ trimmed' = [trimmed EXCEPT ![a] = trim(plateInput)]
  /\ UNCHANGED <<reactVars, refVars, timerPending, cameraVars, timedOut,
                 detectorCreated, ocrCreated>>

\* The click: the button is enabled and bound to handleDetectPlate, the two
\* guards pass, captureFrame is awaited.  The closure's plateInput is the one
\* of the render that handled the click.
HandleDetectPlate(a) ==
  /\ a = started + 1
  /\ a <= MaxAttempts
  /\ ocrStatus # "loading"
  /\ cameraReady
  /\ started' = a
  /\ pc' = [pc EXCEPT ![a] = "captureFrame"]
  /\ trimmed' = [trimmed EXCEPT ![a] = normalizePlate(trim(plateInput))]
  /\ UNCHANGED <<reactVars, refVars, timerPending, cameraVars, timedOut,
                 detectorCreated, ocrCreated>>

\* captureFrame has returned (snapshot, or null without a canvas, context or
\* blob): manual entry, or the start of the scan, or nothing.
CaptureFrameDone(a, snapshot) ==
  /\ pc[a] = "captureFrame"
  /\ trimmed' = [trimmed EXCEPT ![a] = <<>>]
  /\ IF trimmed[a] # <<>>
       THEN /\ detectedPlate' = trimmed[a]
            /\ plateInput' = trimmed[a]
            /\ Return(a)
            /\ UNCHANGED <<cameraReady, snapshotUrl, ocrStatus, ocrError, ocrConfidence,
                           refVars, timerPending>>
       ELSE IF snapshot
         THEN /\ ocrStatus' = "loading"
              /\ ocrError' = NoError
              /\ timerPending' = TimersAfterClear \cup {a}
              /\ ocrTimeoutRef' = a
              /\ stopCamera
              /\ Await(a, "loadImage")
              /\ UNCHANGED <<snapshotUrl, plateInput, detectedPlate, ocrConfidence,
                             detectorSessionRef, ocrSessionRef, cameraStartingRef>>
         ELSE /\ Return(a)
              /\ UNCHANGED <<reactVars, refVars, timerPending>>
  /\ UNCHANGED <<cameraVars, started, detectorCreated, ocrCreated>>

\* The call going on to the crop without awaiting detectorSession.run.
SkipDetectorRun(a, prepared) ==
  /\ Await(a, "cropPlate")
  /\ UNCHANGED <<ocrStatus, ocrError, timerPending, ocrTimeoutRef>>

\* What follows "await getDetectorSession()" once a session is at hand:
\* prepareDetectorInput, then detectorSession.run is awaited.
StartDetectorRun(a, prepared) ==
  IF prepared
    THEN /\ Await(a, "detectorRun")
         /\ UNCHANGED <<ocrStatus, ocrError, timerPending, ocrTimeoutRef>>
    ELSE CatchScanError(a, DetectorInputFailed)

\* loadImageElement(snapshot.url) has resolved; getDetectorSession returns the
\* cached session or awaits InferenceSession.create.
FrameImageLoaded(a, image, prepared) ==
  /\ pc[a] = "loadImage"
  /\ IF ~image
       THEN CatchScanError(a, FrameUnreadable) /\ UNCHANGED detectorCreated
       ELSE IF detectorSessionRef
         THEN StartDetectorRun(a, prepared) /\ UNCHANGED detectorCreated
         ELSE /\ Await(a, "detectorCreate")
              /\ detectorCreated' = TRUE
              /\ UNCHANGED <<ocrStatus, ocrError, timerPending, ocrTimeoutRef>>
  /\ UNCHANGED <<cameraReady, snapshotUrl, plateInput, detectedPlate, ocrConfidence,
                 detectorSessionRef, ocrSessionRef, streamRef, cameraStartingRef,
                 cameraVars, trimmed, started, ocrCreated>>

\* InferenceSession.create for the detector has settled.
DetectorSessionCreated(a, created, prepared) ==
  /\ pc[a] = "detectorCreate"
  /\ IF created
       THEN detectorSessionRef' = TRUE /\ StartDetectorRun(a, prepared)
       ELSE CatchScanError(a, InferenceFailed) /\ UNCHANGED detectorSessionRef
  /\ UNCHANGED <<cameraReady, snapshotUrl, plateInput, detectedPlate, ocrConfidence,
                 ocrSessionRef, streamRef, cameraStartingRef, cameraVars, trimmed,
                 started, detectorCreated, ocrCreated>>

\* detectorSession.run has resolved with an output: parseDetectorOutput, then
\* the throw on no detection or the await of cropPlate.
DetectorRunDone(a, output) ==
  /\ pc[a] = "detectorRun"
  /\ IF parseDetectorOutput(output) = <<>>
       THEN CatchScanError(a, NoPlateDetected)
       ELSE /\ Await(a, "cropPlate")
            /\ UNCHANGED <<ocrStatus, ocrError, timerPending, ocrTimeoutRef>>
  /\ UNCHANGED <<cameraReady, snapshotUrl, plateInput, detectedPlate, ocrConfidence,
                 detectorSessionRef, ocrSessionRef, streamRef, cameraStartingRef,
                 cameraVars, trimmed, started, detectorCreated, ocrCreated>>

\* detectorSession.run has rejected.
DetectorRunFailed(a) ==
  /\ pc[a] = "detectorRun"
  /\ CatchScanError(a, InferenceFailed)
  /\ UNCHANGED <<cameraReady, snapshotUrl, plateInput, detectedPlate, ocrConfidence,
                 detectorSessionRef, ocrSessionRef, streamRef, cameraStartingRef,
                 cameraVars, trimmed, started, detectorCreated, ocrCreated>>

\* cropped.url: the object URL of call a's cropped image or, when cropPlate
\* returns null, of its snapshot; either way a URL made by this call.
UrlOf(a) == a

\* cropPlate has resolved: setSnapshotUrl, then runOcr starts (loading, error
\* and confidence reset) and awaits loadImageElement.
CropPlateDone(a) ==
  /\ pc[a] = "cropPlate"
  /\ snapshotUrl' = UrlOf(a)
  /\ ocrStatus' = "loading"
  /\ ocrError' = NoError
  /\ ocrConfidence' = NullConfidence
  /\ Await(a, "ocrLoadImage")
  /\ UNCHANGED <<cameraReady, plateInput, detectedPlate, refVars, timerPending,
                 cameraVars, trimmed, started, detectorCreated, ocrCreated>>

\* What follows "await getOcrSession()" once a session is at hand:
\* prepareOcrInput, then session.run is awaited.
StartOcrRun(a, prepared) ==
  IF prepared
    THEN /\ Await(a, "ocrRun")
         /\ UNCHANGED <<ocrStatus, ocrError, timerPending, ocrTimeoutRef>>
    ELSE CatchOcrError(a, OcrInputFailed)

\* runOcr: loadImageElement(imageData) has resolved; getOcrSession returns the
\* cached session or awaits InferenceSession.create.
OcrImageLoaded(a, image, prepared) ==
  /\ pc[a] = "ocrLoadImage"
  /\ IF ~image
       THEN CatchOcrError(a, ImageUnreadable) /\ UNCHANGED ocrCreated
       ELSE IF ocrSessionRef
         THEN StartOcrRun(a, prepared) /\ UNCHANGED ocrCreated
         ELSE /\ Await(a, "ocrCreate")
              /\ ocrCreated' = TRUE
              /\ UNCHANGED <<ocrStatus, ocrError, timerPending, ocrTimeoutRef>>
  /\ UNCHANGED <<cameraReady, snapshotUrl, plateInput, detectedPlate, ocrConfidence,
                 detectorSessionRef, ocrSessionRef, streamRef, cameraStartingRef,
                 cameraVars, trimmed, started, detectorCreated>>

\* InferenceSession.create for the OCR model has settled.
OcrSessionCreated(a, created, prepared) ==
  /\ pc[a] = "ocrCreate"
  /\ IF created
       THEN ocrSessionRef' = TRUE /\ StartOcrRun(a, prepared)
       ELSE CatchOcrError(a, InferenceFailed) /\ UNCHANGED ocrSessionRef
  /\ UNCHANGED <<cameraReady, snapshotUrl, plateInput, detectedPlate, ocrConfidence,
                 detectorSessionRef, streamRef, cameraStartingRef, cameraVars, trimmed,
                 started, detectorCreated, ocrCreated>>

\* runOcr: session.run has resolved with an output, decoded to [text,
\* confidence]; extractPlate decides; handleDetectPlate stores a non-empty
\* normalizePlate(result).
OcrRunDone(a, decoded) ==
  /\ pc[a] = "ocrRun"
  /\ LET plate == extractPlate(decoded.text)
         ocrResult == normalizePlate(plate)
     IN  IF plate = <<>>
           THEN /\ ocrStatus' = "error"
                /\ ocrError' = NoPlateDetected
                /\ UNCHANGED <<ocrConfidence, detectedPlate, plateInput>>
           ELSE /\ ocrStatus' = "success"
                /\ ocrConfidence' = decoded.confidence
                /\ UNCHANGED ocrError
                /\ IF ocrResult # <<>>
                     THEN detectedPlate' = ocrResult /\ plateInput' = ocrResult
                     ELSE UNCHANGED <<detectedPlate, plateInput>>
  /\ timerPending' = TimersAfterClear
  /\ ocrTimeoutRef' = NoTimer
  /\ Return(a)
  /\ UNCHANGED <<cameraReady, snapshotUrl, detectorSessionRef, ocrSessionRef,
                 streamRef, cameraStartingRef, cameraVars, trimmed, started,
                 detectorCreated, ocrCreated>>

\* runOcr: session.run has rejected.
OcrRunFailed(a) ==
  /\ pc[a] = "ocrRun"
  /\ CatchOcrError(a, InferenceFailed)
  /\ UNCHANGED <<cameraReady, snapshotUrl, plateInput, detectedPlate, ocrConfidence,
                 detectorSessionRef, ocrSessionRef, streamRef, cameraStartingRef,
                 cameraVars, trimmed, started, detectorCreated, ocrCreated>>

\* The callback of window.setTimeout(..., 15000) runs.
OcrTimeoutFires(t) ==
  /\ t \in timerPending
  /\ timerPending' = timerPending \ {t}
  /\ timedOut' = IF pc[t] = "done" THEN timedOut ELSE timedOut \cup {t}
  /\ ocrStatus' = "error"
  /\ ocrError' = ScanTimedOut
  /\ UNCHANGED <<cameraReady, snapshotUrl, plateInput, detectedPlate, ocrConfidence,
                 refVars, cameraVars, pc, trimmed, started, detectorCreated, ocrCreated>>

(***************************************************************************)
(* Camera: startCamera, handleResumeCamera, the manual entry field.        *)
(***************************************************************************)
\* The click on "Resume Camera" (button enabled, camera not ready): the
\* synchronous part of handleResumeCamera, up to its 300 ms wait.
HandleResumeCamera ==
  /\ resumeWaiting < MaxResumeWaiting
  /\ ocrStatus # "loading"
  /\ ~cameraReady
  /\ stopCamera
  /\ timerPending' = TimersAfterClear
  /\ ocrTimeoutRef' = NoTimer
  /\ snapshotUrl' = NoUrl
  /\ detectedPlate' = NullPlate
  /\ plateInput' = <<>>
  /\ ocrStatus' = "idle"
  /\ ocrError' = NoError
  /\ ocrConfidence' = NullConfidence
  /\ lookupStatus' = "idle"
  /\ lookupError' = NoError
  /\ vehicleData' = NoVehicle
  /\ resumeWaiting' = resumeWaiting + 1
  /\ UNCHANGED <<detectorSessionRef, ocrSessionRef, cameraStartingRef, camPc,
                 attemptVars, lookupPc, lookupStarted>>

\* The 300 ms wait of a handleResumeCamera call is over: startCamera, which
\* returns at once while another call is starting the camera.
ResumeDelayElapsed ==
  /\ resumeWaiting > 0
  /\ resumeWaiting' = resumeWaiting - 1
  /\ IF cameraStartingRef
       THEN UNCHANGED <<cameraStartingRef, camPc>>
       ELSE cameraStartingRef' = TRUE /\ camPc' = "getUserMedia"
  /\ UNCHANGED <<reactVars, detectorSessionRef, ocrSessionRef, ocrTimeoutRef, streamRef,
                 timerPending, attemptVars>>

\* startCamera: getUserMedia has settled.
GetUserMediaDone(granted) ==
  /\ camPc = "getUserMedia"
  /\ IF granted
       THEN /\ streamRef' = TRUE
            /\ camPc' = "play"
            /\ UNCHANGED cameraStartingRef
       ELSE /\ camPc' = "none"
            /\ cameraStartingRef' = FALSE
            /\ UNCHANGED streamRef
  /\ UNCHANGED <<reactVars, detectorSessionRef, ocrSessionRef, ocrTimeoutRef,
                 timerPending, resumeWaiting, attemptVars>>

\* startCamera: video.play() has settled.
VideoPlayDone(playing) ==
  /\ camPc = "play"
  /\ cameraReady' = (IF playing THEN TRUE ELSE cameraReady)
  /\ camPc' = "none"
  /\ cameraStartingRef' = FALSE
  /\ UNCHANGED <<snapshotUrl, plateInput, detectedPlate, ocrStatus, ocrError,
                 ocrConfidence, detectorSessionRef, ocrSessionRef, ocrTimeoutRef,
                 streamRef, timerPending, resumeWaiting, attemptVars>>

(***************************************************************************)
(* handleLookup, one action per await.  The Lookup DVLA button is always   *)
(* enabled.                                                                *)
(***************************************************************************)
\* detectedPlate || plateInput
PlateOrInput == IF detectedPlate \in {NullPlate, <<>>} THEN plateInput ELSE detectedPlate

\* The catch block of handleLookup, which ends the call.
CatchLookupError(l, message) ==
  /\ vehicleData' = NoVehicle
  /\ lookupStatus' = "error"
  /\ lookupError' = message
  /\ lookupPc' = [lookupPc EXCEPT ![l] = "done"]

\* The click: without a registration the call ends with an error, with one it
\* posts it to /api/dvla and awaits the response.
HandleLookup(l) ==
  /\ l = lookupStarted + 1
  /\ l <= MaxLookups
  /\ lookupStarted' = l
  /\ IF normalizePlate(PlateOrInput) = <<>>
       THEN /\ lookupError' = RegistrationMissing
            /\ lookupStatus' = "error"
            /\ lookupPc' = [lookupPc EXCEPT ![l] = "done"]
       ELSE /\ lookupStatus' = "loading"
            /\ lookupError' = NoError
            /\ lookupPc' = [lookupPc EXCEPT ![l] = "fetch"]
  /\ UNCHANGED <<vehicleData, scanVars>>

\* fetch has settled: a response that is ok, one that is not, or a rejection.
LookupFetchDone(l, outcome) ==
  /\ lookupPc[l] = "fetch"
  /\ CASE outcome = "ok" ->
            /\ lookupPc' = [lookupPc EXCEPT ![l] = "body"]
            /\ UNCHANGED <<lookupStatus, lookupError, vehicleData>>
       [] outcome = "notOk" ->
            /\ lookupPc' = [lookupPc EXCEPT ![l] = "errorBody"]
            /\ UNCHANGED <<lookupStatus, lookupError, vehicleData>>
       [] outcome = "rejected" -> CatchLookupError(l, "Lookup failed.")
  /\ UNCHANGED <<lookupStarted, scanVars>>

\* The body of a response that is not ok has been read: the error is thrown.
LookupErrorBodyRead(l) ==
  /\ lookupPc[l] = "errorBody"
  /\ CatchLookupError(l, LookupFailed)
  /\ UNCHANGED <<lookupStarted, scanVars>>

\* response.json() of an ok response has settled: the payload, named after
\* the call it answers, or a rejection.
LookupBodyRead(l, parsed) ==
  /\ lookupPc[l] = "body"
  /\ IF parsed
       THEN /\ vehicleData' = l
            /\ lookupStatus' = "success"
            /\ lookupPc' = [lookupPc EXCEPT ![l] = "done"]
            /\ UNCHANGED lookupError
       ELSE CatchLookupError(l, "Lookup failed.")
  /\ UNCHANGED <<lookupStarted, scanVars>>

\* infoData of the render
infoData ==
  IF lookupStatus = "success" /\ vehicleData # NoVehicle THEN vehicleData ELSE NoVehicle

\* onChange of the manual entry field.
SetPlateInput(value) ==
  /\ plateInput # value
  /\ plateInput' = value
  /\ UNCHANGED <<cameraReady, snapshotUrl, detectedPlate, ocrStatus, ocrError,
                 ocrConfidence, refVars, timerPending, cameraVars, attemptVars>>

(***************************************************************************)
(* Bounds of the text inputs.                                              *)
(***************************************************************************)
MaxTextLen == 9

TextChars == {"a", "1", " "}

RECURSIVE SeqsUpTo(_, _)
SeqsUpTo(S, n) ==
  IF n = 0 THEN {<<>>}
  ELSE LET shorter == SeqsUpTo(S, n - 1)
       IN  shorter \cup {Append(s, c) : s \in {t \in shorter : Len(t) = n - 1}, c \in S}

\* The spec's own examples, and a string whose upper-casing changes its length.
TextExamples ==
  { <<"L"," ","M"," ","2"," ","2"," ","X"," ","P"," ","T">>,
    <<"L","M","2","2"," ","X","P","T">>,
    <<"l","m","2","2","-","x","p","t">>,
    <<"?","?","#","#","?","?">>,
    <<"9","K","X","1","9","L","Y","R","7">>,
    <<"ß","t","r","a","ß","e">> }

TextInputs == SeqsUpTo(TextChars, MaxTextLen) \cup TextExamples

VARIABLES rawText, result, op

textVars == <<rawText, result, op>>

TextIdle == rawText = <<>> /\ result = <<>> /\ op = "ready"

ExtractPlateCall ==
  /\ op = "ready"
  /\ result' = extractPlate(rawText)
  /\ op' = "extractPlate"
  /\ UNCHANGED rawText

NormalizePlateCall ==
  /\ op = "ready"
  /\ result' = normalizePlate(rawText)
  /\ op' = "normalizePlate"
  /\ UNCHANGED rawText

NormalizePlateAgain ==
  /\ op = "normalizePlate"
  /\ result' = normalizePlate(result)
  /\ op' = "normalizeTwice"
  /\ UNCHANGED rawText

RouteNormalizeCall ==
  /\ op = "ready"
  /\ result' = normalizedRegistration(rawText)
  /\ op' = "route"
  /\ UNCHANGED rawText

(***************************************************************************)
(* Calls of the numeric helpers (iou, nms, parseDetectorOutput,            *)
(* decodeOcrOutput, the letterbox and the crop mapping): the argument, the *)
(* value returned, and the function that was called.                       *)
(***************************************************************************)
VARIABLES arg, ret, fn

calcVars == <<arg, ret, fn>>

CalcIdle == arg = <<>> /\ ret = <<>> /\ fn = "ready"

InitText ==
  /\ PageInit
  /\ CalcIdle
  /\ rawText \in TextInputs
  /\ result = <<>>
  /\ op = "ready"

vars == <<pageVars, textVars, calcVars>>

NextText ==
  \/ ExtractPlateCall /\ UNCHANGED <<pageVars, calcVars>>
  \/ NormalizePlateCall /\ UNCHANGED <<pageVars, calcVars>>
  \/ NormalizePlateAgain /\ UNCHANGED <<pageVars, calcVars>>
  \/ RouteNormalizeCall /\ UNCHANGED <<pageVars, calcVars>>

SpecText == InitText /\ [][NextText]_vars

(***************************************************************************)
(* The page.                                                               *)
(***************************************************************************)
Init == PageInit /\ TextIdle /\ CalcIdle

Next ==
  \/ \E a \in Attempts : HandleDetectPlate(a) /\ UNCHANGED <<lookupVars, textVars, calcVars>>
  \/ \E a \in Attempts, snapshot \in BOOLEAN :
       CaptureFrameDone(a, snapshot) /\ UNCHANGED <<lookupVars, textVars, calcVars>>
  \/ \E a \in Attempts, image \in BOOLEAN, prepared \in BOOLEAN :
       FrameImageLoaded(a, image, prepared) /\ UNCHANGED <<lookupVars, textVars, calcVars>>
  \/ \E a \in Attempts, created \in BOOLEAN, prepared \in BOOLEAN :
       DetectorSessionCreated(a, created, prepared) /\ UNCHANGED <<lookupVars, textVars, calcVars>>
  \/ \E a \in Attempts, output \in DetectorOutputs :
       DetectorRunDone(a, output) /\ UNCHANGED <<lookupVars, textVars, calcVars>>
  \/ \E a \in Attempts : DetectorRunFailed(a) /\ UNCHANGED <<lookupVars, textVars, calcVars>>
  \/ \E a \in Attempts : CropPlateDone(a) /\ UNCHANGED <<lookupVars, textVars, calcVars>>
  \/ \E a \in Attempts, image \in BOOLEAN, prepared \in BOOLEAN :
       OcrImageLoaded(a, image, prepared) /\ UNCHANGED <<lookupVars, textVars, calcVars>>
  \/ \E a \in Attempts, created \in BOOLEAN, prepared \in BOOLEAN :
       OcrSessionCreated(a, created, prepared) /\ UNCHANGED <<lookupVars, textVars, calcVars>>
  \/ \E a \in Attempts, decoded \in OcrOutputs :
       OcrRunDone(a, decoded) /\ UNCHANGED <<lookupVars, textVars, calcVars>>
  \/ \E a \in Attempts : OcrRunFailed(a) /\ UNCHANGED <<lookupVars, textVars, calcVars>>
  \/ \E t \in Attempts : OcrTimeoutFires(t) /\ UNCHANGED <<lookupVars, textVars, calcVars>>
  \/ HandleResumeCamera /\ UNCHANGED <<textVars, calcVars>>
  \/ ResumeDelayElapsed /\ UNCHANGED <<lookupVars, textVars, calcVars>>
  \/ \E granted \in BOOLEAN : GetUserMediaDone(granted) /\ UNCHANGED <<lookupVars, textVars, calcVars>>
  \/ \E playing \in BOOLEAN : VideoPlayDone(playing) /\ UNCHANGED <<lookupVars, textVars, calcVars>>
  \/ \E value \in TypedInputs \cup {<<>>} : SetPlateInput(value) /\ UNCHANGED <<lookupVars, textVars, calcVars>>

Spec == Init /\ [][Next]_vars

\* What the browser guarantees: a pending timer fires, and the awaits on the
\* canvas and on image decoding settle.  Nothing makes the model runtime
\* return: InferenceSession.create and session.run may stay pending for ever.
Fairness ==
  /\ \A t \in Attempts : WF_vars(OcrTimeoutFires(t) /\ UNCHANGED <<lookupVars, textVars, calcVars>>)
  /\ \A a \in Attempts :
       WF_vars((\E snapshot \in BOOLEAN : CaptureFrameDone(a, snapshot)) /\ UNCHANGED <<lookupVars, textVars, calcVars>>)
  /\ \A a \in Attempts :
       WF_vars((\E image \in BOOLEAN, prepared \in BOOLEAN :
                  FrameImageLoaded(a, image, prepared)) /\ UNCHANGED <<lookupVars, textVars, calcVars>>)
  /\ \A a \in Attempts : WF_vars(CropPlateDone(a) /\ UNCHANGED <<lookupVars, textVars, calcVars>>)
  /\ \A a \in Attempts :
       WF_vars((\E image \in BOOLEAN, prepared \in BOOLEAN :
                  OcrImageLoaded(a, image, prepared)) /\ UNCHANGED <<lookupVars, textVars, calcVars>>)

FairSpec == Spec /\ Fairness

(***************************************************************************)
(* Calls of iou and nms on candidate lists.                                *)
(***************************************************************************)
MaxBoxes == 3

\* Boxes in half pixels: half a pixel square, two pairs overlapping by more
\* than 0.4, one far away, one of zero area, one overlapping the first large
\* box by 0.25.
BoxExamples ==
  { <<0, 0, 1, 1>>, <<0, 0, 10, 10>>, <<1, 0, 11, 10>>, <<4, 0, 14, 10>>,
    <<20, 0, 30, 10>>, <<5, 5, 5, 5>>, <<6, 0, 16, 10>> }

ScoreExamples == {30, 60}

CandidateExamples == [box : BoxExamples, score : ScoreExamples]

\* iou > threshold is decided for the thresholds 0, 0.4 and 0.9.
ThresholdExamples == { <<0, 10>>, <<4, 10>>, <<9, 10>> }

InitBoxes ==
  /\ PageInit
  /\ TextIdle
  /\ arg \in [boxes : SeqsUpTo(CandidateExamples, MaxBoxes), threshold : ThresholdExamples]
  /\ ret = <<>>
  /\ fn = "ready"

\* nms(boxes, threshold)
NmsCall ==
  /\ fn = "ready"
  /\ ret' = nms(arg.boxes, arg.threshold[1], arg.threshold[2])
  /\ fn' = "nms"
  /\ UNCHANGED arg

\* nms(nms(boxes, threshold), threshold)
NmsAgain ==
  /\ fn = "nms"
  /\ ret' = nms(ret, arg.threshold[1], arg.threshold[2])
  /\ fn' = "nmsTwice"
  /\ UNCHANGED arg

\* iou(a, b) of the first two boxes, as the pair <<interArea, divisor>>
IouCall ==
  /\ fn = "ready"
  /\ Len(arg.boxes) >= 2
  /\ ret' = <<InterArea(arg.boxes[1].box, arg.boxes[2].box),
              IouUnion(arg.boxes[1].box, arg.boxes[2].box)>>
  /\ fn' = "iou"
  /\ UNCHANGED arg

NextBoxes ==
  \/ NmsCall /\ UNCHANGED <<pageVars, textVars>>
  \/ NmsAgain /\ UNCHANGED <<pageVars, textVars>>
  \/ IouCall /\ UNCHANGED <<pageVars, textVars>>

SpecBoxes == InitBoxes /\ [][NextBoxes]_vars

(***************************************************************************)
(* Calls of parseDetectorOutput on the same candidates laid out boxes-first *)
(* ([1, boxes, channels]) and channels-first ([1, channels, boxes]).        *)
(***************************************************************************)
\* inputWidth and inputHeight: Number(inputMeta?.dimensions?.[..]) || 640
DetectorInputWidth == 640

DetectorInputHeight == 640

FewBoxes == 4

ManyBoxes == 11

BoxCounts == {FewBoxes, ManyBoxes}

ChannelCounts == {4, 5, 6}

\* Raw candidates <<x, y, w, h, obj logit, cls logit>>: two overlapping boxes,
\* a negative width, a negative height, a score of 0.25, and two with
\* coordinates of magnitude at most 1.
RawRows ==
  { <<10, 10, 8, 4, 40, 40>>,
    <<11, 10, 8, 4, 40, 0>>,
    <<30, 30, -6, 4, 0, 40>>,
    <<30, 10, 6, -4, 40, 40>>,
    <<50, 50, 4, 4, 0, 0>>,
    <<1, 1, 1, 1, 40, 40>>,
    <<0, 1, 1, 0, 40, 0>> }

\* The candidate that fills the rest of the tensor.
FillerRow == <<0, 0, 0, 0, -800, 40>>

\* The candidates of a tensor: two chosen rows, then filler, each cut to the
\* channel count.
RowsOf(r1, r2, boxes, channels) ==
  [n \in 1..boxes |->
     SubSeq(IF n = 1 THEN r1 ELSE IF n = 2 THEN r2 ELSE FillerRow, 1, channels)]

\* The flat data of rows laid out [boxes, channels].
BoxesFirstData(rows) ==
  LET channels == Len(rows[1])
  IN  [k \in 1..(Len(rows) * channels) |->
         rows[((k - 1) \div channels) + 1][((k - 1) % channels) + 1]]

\* The flat data of rows laid out [channels, boxes].
ChannelsFirstData(rows) ==
  LET boxes == Len(rows)
  IN  [k \in 1..(boxes * Len(rows[1])) |->
         rows[((k - 1) % boxes) + 1][((k - 1) \div boxes) + 1]]

InitTensor ==
  /\ PageInit
  /\ TextIdle
  /\ arg \in {RowsOf(r1, r2, boxes, channels) :
                r1 \in RawRows, r2 \in RawRows, boxes \in BoxCounts,
                channels \in ChannelCounts}
  /\ ret = <<>>
  /\ fn = "ready"

ParseBoxesFirstCall ==
  /\ fn = "ready"
  /\ ret' = parseDetectorTensor(BoxesFirstData(arg), <<1, Len(arg), Len(arg[1])>>,
                                DetectorInputWidth, DetectorInputHeight)
  /\ fn' = "boxesFirst"
  /\ UNCHANGED arg

ParseChannelsFirstCall ==
  /\ fn = "ready"
  /\ ret' = parseDetectorTensor(ChannelsFirstData(arg), <<1, Len(arg[1]), Len(arg)>>,
                                DetectorInputWidth, DetectorInputHeight)
  /\ fn' = "channelsFirst"
  /\ UNCHANGED arg

NextTensor ==
  \/ ParseBoxesFirstCall /\ UNCHANGED <<pageVars, textVars>>
  \/ ParseChannelsFirstCall /\ UNCHANGED <<pageVars, textVars>>

SpecTensor == InitTensor /\ [][NextTensor]_vars

(***************************************************************************)
(* Calls of decodeOcrOutput on the same slots laid out slots-first         *)
(* ([1, slots, 37]) and classes-first ([1, 37, slots]).  A slot is given   *)
(* by the set of classes holding the raw score 0, all others holding -800. *)
(***************************************************************************)
MaxOcrSlots == 3

\* "A" alone, padding alone, "1" tied with padding, "Z" tied with padding,
\* "0" tied with "A" and padding.
HotExamples == { {10}, {36}, {1, 36}, {35, 36}, {0, 10, 36} }

\* Nine slots of which the fifth is padding.
NineSlots == [i \in 1..OcrMaxSlots |-> IF i = 5 THEN {36} ELSE {10 + i}]

SlotValue(hot, cls) == IF cls \in hot THEN 0 ELSE 0 - 800

SlotsFirstData(hots) ==
  LET classes == Len(OCR_ALPHABET)
  IN  [k \in 1..(Len(hots) * classes) |->
         SlotValue(hots[((k - 1) \div classes) + 1], (k - 1) % classes)]

ClassesFirstData(hots) ==
  LET slots == Len(hots)
  IN  [k \in 1..(slots * Len(OCR_ALPHABET)) |->
         SlotValue(hots[((k - 1) % slots) + 1], (k - 1) \div slots)]

\* As many slots as the alphabet has classes, each reading "A".
SquareSlots == [i \in 1..Len(OCR_ALPHABET) |-> {10}]

\* Shapes that are not 3-dimensional or have 37 on neither the middle nor the
\* last axis, for an output of S slots.
MismatchDims(S) ==
  LET classes == Len(OCR_ALPHABET)
      shapes == { <<S * classes>>, <<S, classes>>, <<1, 1, S, classes>>,
                  <<1, S, classes - 1>>, <<1, classes + 1, S>>, <<classes, S, 1>> }
  IN  {dims \in shapes : Len(dims) = 3 => (dims[2] # classes /\ dims[3] # classes)}

InitOcr ==
  /\ PageInit
  /\ TextIdle
  /\ arg \in SeqsUpTo(HotExamples, MaxOcrSlots) \cup {NineSlots, SquareSlots}
  /\ ret = <<>>
  /\ fn = "ready"

DecodeSlotsFirstCall ==
  /\ fn = "ready"
  /\ ret' = decodeOcrOutput(SlotsFirstData(arg), <<1, Len(arg), Len(OCR_ALPHABET)>>)
  /\ fn' = "slotsFirst"
  /\ UNCHANGED arg

DecodeClassesFirstCall ==
  /\ fn = "ready"
  /\ Len(arg) # Len(OCR_ALPHABET)
  /\ ret' = decodeOcrOutput(ClassesFirstData(arg), <<1, Len(OCR_ALPHABET), Len(arg)>>)
  /\ fn' = "classesFirst"
  /\ UNCHANGED arg

\* The class-major output with as many slots as classes: both axes have the
\* length of the alphabet.
DecodeSquareClassesFirstCall ==
  /\ fn = "ready"
  /\ Len(arg) = Len(OCR_ALPHABET)
  /\ ret' = decodeOcrOutput(ClassesFirstData(arg), <<1, Len(OCR_ALPHABET), Len(arg)>>)
  /\ fn' = "squareClassesFirst"
  /\ UNCHANGED arg

\* An output whose shape decodeOcrOutput does not recognise, holding the
\* slot-major scores whole or without their last entry.
DecodeMismatchCall(dims, truncated) ==
  /\ fn = "ready"
  /\ dims \in MismatchDims(Len(arg))
  /\ LET data == SlotsFirstData(arg)
     IN  ret' = decodeOcrOutput(IF truncated THEN SubSeq(data, 1, Len(data) - 1)
                                ELSE data, dims)
  /\ fn' = IF truncated THEN "mismatchTruncated" ELSE "mismatch"
  /\ UNCHANGED arg

NextOcr ==
  \/ DecodeSlotsFirstCall /\ UNCHANGED <<pageVars, textVars>>
  \/ DecodeClassesFirstCall /\ UNCHANGED <<pageVars, textVars>>
  \/ DecodeSquareClassesFirstCall /\ UNCHANGED <<pageVars, textVars>>
  \/ \E dims \in MismatchDims(Len(arg)), truncated \in BOOLEAN :
       DecodeMismatchCall(dims, truncated) /\ UNCHANGED <<pageVars, textVars>>

SpecOcr == InitOcr /\ [][NextOcr]_vars

(***************************************************************************)
(* Calls of prepareDetectorInput, prepareOcrInput and of the crop mapping. *)
(***************************************************************************)
MaxImageSide == 12

\* Widths and heights of the detector input.
TargetSides == {1, 6, 8}

\* Box coordinates along an axis of the given length, in half pixels.
AxisPoints(length) ==
  {0, 1, CoordScale, CoordScale * (length \div 2), CoordScale * (length \div 2) + 1,
   CoordScale * length - 1, CoordScale * length}

TensorBoxes(width, height) ==
  {<<x1, y1, x2, y2>> : x1 \in AxisPoints(width), y1 \in {0, CoordScale * (height \div 2)},
                        x2 \in AxisPoints(width), y2 \in {CoordScale * height}}

InitLetterbox ==
  /\ PageInit
  /\ TextIdle
  /\ arg \in [imgW : 1..MaxImageSide, imgH : 1..MaxImageSide,
              width : TargetSides, height : TargetSides]
  /\ ret = <<>>
  /\ fn = "ready"

PrepareDetectorInputCall(tiesUp) ==
  /\ fn = "ready"
  /\ ret' = prepareDetectorInput(arg.imgW, arg.imgH, arg.width, arg.height, tiesUp)
  /\ fn' = "prepareDetectorInput"
  /\ UNCHANGED arg

PrepareOcrInputCall(tiesUp) ==
  /\ fn = "ready"
  /\ ret' = prepareOcrInput(arg.imgW, arg.imgH, tiesUp)
  /\ fn' = "prepareOcrInput"
  /\ UNCHANGED arg

\* handleDetectPlate maps the best detection back to the image and cropPlate
\* sizes its canvas.
CropMappingCall(box, tiesUp) ==
  /\ fn = "prepareDetectorInput"
  /\ box[1] <= box[3]
  /\ ret' = [prepared |-> ret, box |-> box,
             crop |-> CropBox(box, ret, arg.imgW, arg.imgH),
             canvas |-> cropPlate(CropBox(box, ret, arg.imgW, arg.imgH),
                                  CoordScale * ret.scale[1], tiesUp)]
  /\ fn' = "cropBox"
  /\ UNCHANGED arg

NextLetterbox ==
  \/ \E tiesUp \in BOOLEAN :
       PrepareDetectorInputCall(tiesUp) /\ UNCHANGED <<pageVars, textVars>>
  \/ \E tiesUp \in BOOLEAN :
       PrepareOcrInputCall(tiesUp) /\ UNCHANGED <<pageVars, textVars>>
  \/ \E box \in TensorBoxes(arg.width, arg.height), tiesUp \in BOOLEAN :
       CropMappingCall(box, tiesUp) /\ UNCHANGED <<pageVars, textVars>>

SpecLetterbox == InitLetterbox /\ [][NextLetterbox]_vars

(***************************************************************************)
(* The page with its lookup handler, the manual entry field and Resume     *)
(* Camera, without the scan.                                               *)
(***************************************************************************)
NextLookup ==
  \/ \E l \in Lookups : HandleLookup(l) /\ UNCHANGED <<textVars, calcVars>>
  \/ \E l \in Lookups, outcome \in {"ok", "notOk", "rejected"} :
       LookupFetchDone(l, outcome) /\ UNCHANGED <<textVars, calcVars>>
  \/ \E l \in Lookups : LookupErrorBodyRead(l) /\ UNCHANGED <<textVars, calcVars>>
  \/ \E l \in Lookups, parsed \in BOOLEAN :
       LookupBodyRead(l, parsed) /\ UNCHANGED <<textVars, calcVars>>
  \/ HandleResumeCamera /\ UNCHANGED <<textVars, calcVars>>
  \/ ResumeDelayElapsed /\ UNCHANGED <<lookupVars, textVars, calcVars>>
  \/ \E granted \in BOOLEAN :
       GetUserMediaDone(granted) /\ UNCHANGED <<lookupVars, textVars, calcVars>>
  \/ \E playing \in BOOLEAN :
       VideoPlayDone(playing) /\ UNCHANGED <<lookupVars, textVars, calcVars>>
  \/ \E value \in TypedInputs \cup {<<>>} :
       SetPlateInput(value) /\ UNCHANGED <<lookupVars, textVars, calcVars>>

SpecLookup == Init /\ [][NextLookup]_vars

(***************************************************************************)
(* captureFrame: the size of the frame drawn on the canvas, and the cases  *)
(* in which it returns null.                                               *)
(***************************************************************************)
\* const maxWidth = 960; const maxHeight = 540
MaxCaptureWidth == 960

MaxCaptureHeight == 540

\* video.videoWidth || 1280 and video.videoHeight || 720
DefaultSourceWidth == 1280

DefaultSourceHeight == 720

\* a < b for fractions with positive denominators
FractionLess(a, b) == a[1] * b[2] < b[1] * a[2]

FractionMin(a, b) == IF FractionLess(b, a) THEN b ELSE a

\* Math.min(maxWidth / sourceWidth, maxHeight / sourceHeight), without the 1.
CaptureScaleUncapped(sourceWidth, sourceHeight) ==
  FractionMin(<<MaxCaptureWidth, sourceWidth>>, <<MaxCaptureHeight, sourceHeight>>)

\* Math.min(maxWidth / sourceWidth, maxHeight / sourceHeight, 1)
CaptureScale(sourceWidth, sourceHeight) ==
  FractionMin(FractionMin(<<MaxCaptureWidth, sourceWidth>>,
                          <<MaxCaptureHeight, sourceHeight>>), <<1, 1>>)

\* captureFrame() up to the size of the frame it returns: video and canvas
\* say whether the refs are set, context whether getContext("2d") gives one,
\* blob whether toBlob delivers one (it delivers none for a canvas without
\* pixels).  captured is FALSE for the result null.
captureFrame(videoWidth, videoHeight, video, canvas, context, blob, tiesUp) ==
  LET sourceWidth == IF videoWidth = 0 THEN DefaultSourceWidth ELSE videoWidth
      sourceHeight == IF videoHeight = 0 THEN DefaultSourceHeight ELSE videoHeight
      scale == CaptureScale(sourceWidth, sourceHeight)
      width == Round(sourceWidth * scale[1], scale[2], tiesUp)
      height == Round(sourceHeight * scale[1], scale[2], tiesUp)
  IN  IF ~video \/ ~canvas THEN [captured |-> FALSE, width |-> 0, height |-> 0]
      ELSE IF ~context THEN [captured |-> FALSE, width |-> width, height |-> height]
      ELSE IF ~blob \/ width = 0 \/ height = 0
        THEN [captured |-> FALSE, width |-> width, height |-> height]
      ELSE [captured |-> TRUE, width |-> width, height |-> height]

MaxSourceSide == 1920

\* Sides around the limits, the defaults, and 0 for a video without frames.
SourceSides ==
  {side \in {0, 1, 2, 3, 7, 539, 540, 541, 720, 959, 960, 961, 1280} :
     side <= MaxSourceSide} \cup {MaxSourceSide}

InitCapture ==
  /\ PageInit
  /\ TextIdle
  /\ arg \in [videoWidth : SourceSides, videoHeight : SourceSides]
  /\ ret = <<>>
  /\ fn = "ready"

CaptureFrameCall(video, canvas, context, blob, tiesUp) ==
  /\ fn = "ready"
  /\ ret' = [video |-> video, canvas |-> canvas, context |-> context, blob |-> blob,
             frame |-> captureFrame(arg.videoWidth, arg.videoHeight, video, canvas,
                                    context, blob, tiesUp)]
  /\ fn' = "captureFrame"
  /\ UNCHANGED arg

NextCapture ==
  \E video \in BOOLEAN, canvas \in BOOLEAN, context \in BOOLEAN, blob \in BOOLEAN,
     tiesUp \in BOOLEAN :
    CaptureFrameCall(video, canvas, context, blob, tiesUp) /\ UNCHANGED <<pageVars, textVars>>

SpecCapture == InitCapture /\ [][NextCapture]_vars

(***************************************************************************)
(* The DVLA route, POST /api/dvla.                                         *)
(***************************************************************************)
\* NextResponse.json(_, {status}) without an upstream call
RouteAnswer(status) ==
  [kind |-> "json", status |-> status, called |-> FALSE, sent |-> <<>>]

\* POST(request).  body.kind says what request.json() finds: "notJson" (it
\* rejects), "null" (the JSON null), "noRegistration" (an object without the
\* field), "string" and "number" (an object whose registration is body.text
\* or a number).  url and key say whether DVLA_API_URL and DVLA_API_KEY are
\* set; upstream is what fetch does.  A TypeError raised before the try block
\* leaves the handler: kind "throws".
POST(body, url, key, upstream) ==
  LET rawRegistration == IF body.kind = "string" THEN body.text ELSE <<>>
      registration == normalizedRegistration(rawRegistration)
  IN  IF body.kind \in {"null", "number"}
        THEN [kind |-> "throws", status |-> 0, called |-> FALSE, sent |-> <<>>]
      ELSE IF registration = <<>> THEN RouteAnswer(400)
      ELSE IF ~url \/ ~key THEN RouteAnswer(501)
      ELSE IF upstream.throws
        THEN [kind |-> "json", status |-> 502, called |-> TRUE, sent |-> registration]
      ELSE [kind |-> "json", status |-> upstream.status, called |-> TRUE,
            sent |-> registration]

MaxRegistrationLen == 2

RequestBodies ==
  {[kind |-> k, text |-> <<>>] : k \in {"notJson", "null", "noRegistration", "number"}}
    \cup {[kind |-> "string", text |-> t] :
            t \in SeqsUpTo(TextChars, MaxRegistrationLen) \cup TextExamples}

UpstreamOutcomes ==
  {[throws |-> TRUE, status |-> 0]}
    \cup {[throws |-> FALSE, status |-> st] : st \in {200, 404, 500}}

InitRoute ==
  /\ PageInit
  /\ TextIdle
  /\ arg \in [body : RequestBodies, url : BOOLEAN, key : BOOLEAN]
  /\ ret = <<>>
  /\ fn = "ready"

PostCall(upstream) ==
  /\ fn = "ready"
  /\ ret' = [upstream |-> upstream,
             response |-> POST(arg.body, arg.url, arg.key, upstream)]
  /\ fn' = "POST"
  /\ UNCHANGED arg

NextRoute ==
  \E upstream \in UpstreamOutcomes : PostCall(upstream) /\ UNCHANGED <<pageVars, textVars>>

SpecRoute == InitRoute /\ [][NextRoute]_vars

(***************************************************************************)
(* Claims.                                                                 *)
(***************************************************************************)
InFlight(a) == pc[a] \notin {"idle", "done"}

\* The stages of a call between the start of the scan and its end.
ScanStages ==
  {"loadImage", "detectorCreate", "detectorRun", "cropPlate", "ocrLoadImage",
   "ocrCreate", "ocrRun"}

\* C1: every detection attempt that sets ocrStatus to "loading" is eventually
\* reported as "error" or "success", also when the detector or OCR inference
\* never returns or returns after the 15 s timer has fired.
C1_NeverLeftPending ==
  (ocrStatus = "loading") ~> (ocrStatus \in {"error", "success"})

\* C2: once the 15 s timer of a call has fired, the completion of that call's
\* detector or OCR inference changes none of ocrStatus, ocrError,
\* ocrConfidence, detectedPlate, plateInput, snapshotUrl.
C2_LateResultIgnored ==
  [][\A a \in Attempts :
       (a \in timedOut /\ pc[a] \in {"detectorRun", "ocrRun"} /\ pc'[a] # pc[a])
         => UNCHANGED <<ocrStatus, ocrError, ocrConfidence, detectedPlate,
                        plateInput, snapshotUrl>>]_vars

\* C3: at most one detection attempt is in flight at any time.
C3_OneAttemptInFlight ==
  Cardinality({a \in Attempts : InFlight(a)}) <= 1

\* C4: InferenceSession.create is called at most once for the detector model
\* and at most once for the OCR model.
C4_SessionCreatedOnce ==
  [][\A a \in Attempts :
       /\ (pc[a] # "detectorCreate" /\ pc'[a] = "detectorCreate") => ~detectorCreated
       /\ (pc[a] # "ocrCreate" /\ pc'[a] = "ocrCreate") => ~ocrCreated]_vars

\* A step in which the scan of some call ends without success, or in which the
\* 15 s timer fires.
EndsWithError ==
  \/ \E a \in Attempts :
       pc[a] \in ScanStages /\ pc'[a] = "done" /\ ocrStatus' # "success"
  \/ \E t \in Attempts : OcrTimeoutFires(t)

\* C5: after an attempt ends with a recoverable error, ocrStatus
\* is not "loading", no timer is armed, and the next handleDetectPlate request
\* is accepted (its guards pass: not loading, camera ready).
C5_ImmediateRetry ==
  [][EndsWithError =>
       (ocrStatus' # "loading" /\ timerPending' = {} /\ cameraReady')]_vars

NoneAtThreshold(output) == \A i \in 1..Len(output) : output[i].score < ScoreThreshold

\* C6: when the detector output has no candidate with score >= 0.3, the call
\* ends with ocrStatus "error" and the "No plate detected" message, the timer
\* cleared, detectedPlate and plateInput unchanged, and without ever running
\* the OCR session (a call that has ended stays ended, and the OCR run is
\* entered only from runOcr's own awaits).
C6_NoDetection ==
  /\ [][\A a \in Attempts, output \in DetectorOutputs :
          (DetectorRunDone(a, output) /\ NoneAtThreshold(output))
            => /\ ocrStatus' = "error"
               /\ ocrError' = NoPlateDetected
               /\ timerPending' = {}
               /\ ocrTimeoutRef' = NoTimer
               /\ pc'[a] = "done"
               /\ UNCHANGED <<detectedPlate, plateInput>>]_vars
  /\ [][\A a \in Attempts :
          /\ pc[a] = "done" => pc'[a] = "done"
          /\ (pc'[a] = "ocrRun" /\ pc[a] # "ocrRun") => pc[a] \in {"ocrLoadImage", "ocrCreate"}]_vars

\* The first attempt has ended with the no-detection error before any OCR
\* session was asked for.
C6_Witness ==
  /\ pc[1] = "done"
  /\ ocrStatus = "error"
  /\ ocrError = NoPlateDetected
  /\ detectorSessionRef
  /\ ~ocrCreated
  /\ timerPending = {}

\* C7: when the decoded OCR text holds no plate, runOcr ends with ocrStatus
\* "error", the "No plate detected" message and ocrConfidence null, and
\* handleDetectPlate leaves detectedPlate and plateInput unchanged.
C7_NoPlateFromOcr ==
  [][\A a \in Attempts, decoded \in OcrOutputs :
       (OcrRunDone(a, decoded) /\ extractPlate(decoded.text) = <<>>)
         => /\ ocrStatus' = "error"
            /\ ocrError' = NoPlateDetected
            /\ ocrConfidence' = NullConfidence
            /\ UNCHANGED <<detectedPlate, plateInput>>]_vars

\* The condensed text of the claims: upper-cased, characters outside [A-Z0-9]
\* removed.
CondensedText(s) == SelectSeq(toUpperCase(s), IsAlnum)

\* Two letters, two digits, three letters.
PlateShaped(t) ==
  /\ Len(t) = 7
  /\ \A k \in {1, 2, 5, 6, 7} : t[k] \in UpperSet
  /\ \A k \in {3, 4} : t[k] \in DigitChars

PlateShapedAt(c, i) == i + 6 <= Len(c) /\ PlateShaped(SubSeq(c, i, i + 6))

\* C8: if the condensed text contains a substring of 2 letters, 2 digits and
\* 3 letters, extractPlate returns the leftmost such substring.
C8_StrictLeftmost ==
  op = "extractPlate" =>
    LET c == CondensedText(rawText)
    IN  \A i \in 1..Len(c) :
          (PlateShapedAt(c, i) /\ \A j \in 1..(i - 1) : ~PlateShapedAt(c, j))
            => result = SubSeq(c, i, i + 6)

\* An input with separators whose condensed text has an alphanumeric run
\* starting before the plate-shaped substring.
C8_Witness ==
  /\ op = "extractPlate"
  /\ rawText # CondensedText(rawText)
  /\ Len(CondensedText(rawText)) >= 8
  /\ ~PlateShapedAt(CondensedText(rawText), 1)
  /\ PlateShapedAt(CondensedText(rawText), 2)
  /\ result = SubSeq(CondensedText(rawText), 2, 8)

\* C9: normalizePlate returns the input upper-cased with every character
\* outside [A-Z0-9] removed, whatever its length or shape, and applying it
\* twice gives the same as applying it once; the route's normalisation is the
\* same function.
C9_NormalizeCanonical ==
  /\ op = "normalizePlate" => result = CondensedText(rawText)
  /\ op = "normalizeTwice" => result = CondensedText(rawText)
  /\ op = "route" => result = CondensedText(rawText)

\* "LM22 XPT" normalised twice is "LM22XPT".
C9_Witness ==
  /\ op = "normalizeTwice"
  /\ rawText = <<"L","M","2","2"," ","X","P","T">>
  /\ result = <<"L","M","2","2","X","P","T">>

IsPlateText(p) == Len(p) >= 1 /\ \A i \in 1..Len(p) : IsAlnum(p[i])

\* C10 (as claimed): detectedPlate is absent or an upper-case alphanumeric
\* string of 2 to 8 characters, whichever path stored it.
C10_PlateLength ==
  detectedPlate = NullPlate \/ (IsPlateText(detectedPlate) /\ Len(detectedPlate) \in 2..8)

\* C10 (amended): detectedPlate is absent or a non-empty upper-case
\* alphanumeric string; it has 2 to 8 characters whenever the OCR path stores
\* it, while manual entry stores the normalised input whatever its length.
C10_PlateShape ==
  /\ [](detectedPlate = NullPlate \/ IsPlateText(detectedPlate))
  /\ [][\A a \in Attempts, decoded \in OcrOutputs :
          (OcrRunDone(a, decoded) /\ ocrStatus' = "success")
            => (IsPlateText(detectedPlate') /\ Len(detectedPlate') \in 2..8)]_vars

\* The OCR path has stored the longest plate it can produce.
C10_Witness ==
  /\ ocrStatus = "success"
  /\ detectedPlate # NullPlate
  /\ Len(detectedPlate) = 8

Count(seq, x) == Cardinality({k \in 1..Len(seq) : seq[k] = x})

\* C11: nms returns survivors ordered by score descending, the first having
\* the maximum score of all candidates; no survivor has IoU above the
\* threshold with a survivor ranked before it; the survivors are candidates,
\* and every discarded candidate has IoU above the threshold with a survivor
\* whose score is at least its own.
C11_NmsSurvivors ==
  fn = "nms" =>
    LET L == arg.boxes
        num == arg.threshold[1]
        den == arg.threshold[2]
    IN  /\ \A i, j \in 1..Len(ret) : i < j => ret[i].score >= ret[j].score
        /\ L # <<>> => ret # <<>>
        /\ \A k \in 1..Len(L) : ret[1].score >= L[k].score
        /\ \A i, j \in 1..Len(ret) :
             i < j => ~IouExceeds(ret[i].box, ret[j].box, num, den)
        /\ \A i \in 1..Len(ret) : Count(ret, ret[i]) <= Count(L, ret[i])
        /\ \A k \in 1..Len(L) :
             Count(ret, L[k]) < Count(L, L[k])
               => \E i \in 1..Len(ret) :
                    /\ IouExceeds(ret[i].box, L[k].box, num, den)
                    /\ ret[i].score >= L[k].score

\* Three candidates at threshold 0.4, the last with the highest score, one of
\* them suppressed.
C11_Witness ==
  /\ fn = "nms"
  /\ arg.threshold = <<4, 10>>
  /\ Len(arg.boxes) = 3
  /\ arg.boxes[1].score < arg.boxes[3].score
  /\ Len(ret) = 2
  /\ ret[1] = arg.boxes[3]

\* C12: nms is idempotent: nms(nms(L, t), t) = nms(L, t), same boxes, same
\* scores, same order.
C12_NmsIdempotent ==
  fn = "nmsTwice" => ret = nms(arg.boxes, arg.threshold[1], arg.threshold[2])

\* Suppression applied twice to three candidates of which two survive with
\* equal scores.
C12_Witness ==
  /\ fn = "nmsTwice"
  /\ Len(arg.boxes) = 3
  /\ Len(ret) = 2
  /\ ret[1].score = ret[2].score
  /\ ret[1].box # ret[2].box

NonDegenerate(b) == b[1] < b[3] /\ b[2] < b[4]

\* The boxes share no interior point.
Disjoint(a, b) == a[3] <= b[1] \/ b[3] <= a[1] \/ a[4] <= b[2] \/ b[4] <= a[2]

\* C14 (as claimed): iou(b, b) = 1 for every non-degenerate box whatever its
\* area, and iou(a, b) = 0 for disjoint boxes, zero-area boxes included.
C14_IouSelfAndDisjoint ==
  fn = "iou" =>
    LET a == arg.boxes[1].box
        b == arg.boxes[2].box
    IN  /\ (a = b /\ NonDegenerate(b)) => ret[1] = ret[2]
        /\ Disjoint(a, b) => ret[1] = 0

\* C14 (amended): iou(b, b) = 1 for every non-degenerate box of area at least
\* one square pixel; for a smaller non-degenerate box iou(b, b) is its area
\* (the divisor is held at 1); iou(a, b) = 0 for disjoint boxes, zero-area
\* boxes included.
C14_IouSelfAtLeastOnePixel ==
  fn = "iou" =>
    LET a == arg.boxes[1].box
        b == arg.boxes[2].box
        area == (b[3] - b[1]) * (b[4] - b[2])
    IN  /\ (a = b /\ NonDegenerate(b) /\ area >= CoordScale * CoordScale)
             => ret[1] = ret[2]
        /\ (a = b /\ NonDegenerate(b) /\ area < CoordScale * CoordScale)
             => (ret[1] = area /\ ret[2] = CoordScale * CoordScale)
        /\ Disjoint(a, b) => ret[1] = 0

\* iou of a box of 25 square pixels with itself.
C14_Witness ==
  /\ fn = "iou"
  /\ arg.boxes[1].box = arg.boxes[2].box
  /\ arg.boxes[1].box = <<0, 0, 10, 10>>
  /\ ret = <<100, 100>>

\* The detections expected of a tensor holding the given candidates, read
\* candidate by candidate.
RowDetections(rows) ==
  LET channels == Len(rows[1])
      normalized == \A n \in 1..Min2(Len(rows), SampleLimit), c \in 1..4 :
                      2 * Abs(rows[n][c]) <= 3
  IN  parseDetectorOutput(
        [n \in 1..Len(rows) |->
           Candidate(rows[n][1], rows[n][2], rows[n][3], rows[n][4],
                     IF channels > 4 THEN sigmoid(rows[n][5]) ELSE 100,
                     IF channels > 5 THEN sigmoid(rows[n][6]) ELSE 100,
                     normalized, DetectorInputWidth, DetectorInputHeight)])

\* C13 (as claimed): whatever the box count, the boxes-first tensor and the
\* channels-first tensor of the same candidates decode to the same
\* detections, those of the candidates.
C13_LayoutsAgree ==
  fn \in {"boxesFirst", "channelsFirst"} => ret = RowDetections(arg)

\* C13 (amended): a tensor with at most 10 channels on the last axis is
\* decoded boxes-first; a tensor with more than 10 boxes on the last axis is
\* decoded channels-first; for more than 10 boxes the two layouts of the same
\* candidates decode to the same detections.
C13_LayoutsAgreeAboveTenBoxes ==
  /\ fn = "boxesFirst" => ret = RowDetections(arg)
  /\ (fn = "channelsFirst" /\ Len(arg) > MaxChannels) => ret = RowDetections(arg)

\* A channels-first tensor of more than 10 candidates, two of which overlap,
\* decoded to the one that survives.
C13_Witness ==
  /\ fn = "channelsFirst"
  /\ Len(arg) > MaxChannels
  /\ Len(arg[1]) = 6
  /\ arg[1] = <<11, 10, 8, 4, 40, 0>>
  /\ arg[2] = <<10, 10, 8, 4, 40, 40>>
  /\ ret = <<[box |-> <<12, 16, 28, 24>>, score |-> 100]>>

\* C18: every detection returned by parseDetectorOutput has x1 <= x2,
\* y1 <= y2 and a score in [0, 1], whatever the sign of the raw width and
\* height.
C18_BoxesWellFormed ==
  fn \in {"boxesFirst", "channelsFirst"} =>
    \A i \in 1..Len(ret) :
      /\ ret[i].box[1] <= ret[i].box[3]
      /\ ret[i].box[2] <= ret[i].box[4]
      /\ ret[i].score \in 0..100

\* The character of a slot: that of its first class of maximal score.
SlotChar(hot) ==
  OCR_ALPHABET[(CHOOSE c \in hot : \A d \in hot : c <= d) + 1]

\* The number of classes of maximal score: the slot's confidence is 1 over it.
SlotTies(hot) == Cardinality(hot)

NotPadding(c) == c # OCR_PAD

SlotsText(hots) ==
  SelectSeq([i \in 1..Len(hots) |-> SlotChar(hots[i])], NotPadding)

\* The product of the slots' tie counts, by halves.
RECURSIVE TiesProduct(_)
TiesProduct(hots) ==
  IF hots = <<>> THEN 1
  ELSE IF Len(hots) = 1 THEN SlotTies(hots[1])
  ELSE TiesProduct(SubSeq(hots, 1, Len(hots) \div 2))
       * TiesProduct(SubSeq(hots, Len(hots) \div 2 + 1, Len(hots)))

\* The sum of the slot confidences times product, a multiple of every tie
\* count, by halves.
RECURSIVE ConfidenceSumTimes(_, _)
ConfidenceSumTimes(hots, product) ==
  IF hots = <<>> THEN 0
  ELSE IF Len(hots) = 1 THEN product \div SlotTies(hots[1])
  ELSE ConfidenceSumTimes(SubSeq(hots, 1, Len(hots) \div 2), product)
       + ConfidenceSumTimes(SubSeq(hots, Len(hots) \div 2 + 1, Len(hots)), product)

RoundTripError(k) ==
  LET pad == IF k \in {1, 3} THEN ret.prepared.padX ELSE ret.prepared.padY
      d == ret.prepared.scale[2]
  IN  ret.crop[k] + CoordScale * d * pad - ret.box[k] * d

OnePixel == CoordScale * ret.prepared.scale[2]

\* C16 (as claimed): the inverse mapping with its clamping followed by the
\* forward mapping returns each coordinate of every detection box within 1
\* pixel.
C16_RoundTripWithinOnePixel ==
  fn = "cropBox" => \A k \in 1..4 : Abs(RoundTripError(k)) <= OnePixel

\* C16 (amended): a coordinate the clamping leaves unchanged (x1, y1 not
\* before the padding offset; x2, y2 not beyond the far edge of the scaled
\* image) returns exactly; a clamped x1 or y1 returns as the padding offset,
\* a clamped x2 or y2 as the far edge of the scaled image.
C16_RoundTripUnlessClamped ==
  fn = "cropBox" =>
    \A k \in 1..4 :
      LET pad == IF k \in {1, 3} THEN ret.prepared.padX ELSE ret.prepared.padY
          side == IF k \in {1, 3} THEN arg.imgW ELSE arg.imgH
          n == ret.prepared.scale[1]
          d == ret.prepared.scale[2]
          before == ret.box[k] < CoordScale * pad
          beyond == (ret.box[k] - CoordScale * pad) * d > side * CoordScale * n
      IN  IF k \in {1, 2}
            THEN IF before THEN ret.crop[k] = 0 ELSE RoundTripError(k) = 0
            ELSE IF beyond THEN ret.crop[k] = side * CoordScale * n
                 ELSE RoundTripError(k) = 0

\* A box inside the scaled image of a letterbox padded on the left, mapped
\* back with no coordinate clamped.
C16_Witness ==
  /\ fn = "cropBox"
  /\ ret.prepared.padX > 0
  /\ ret.box[1] > CoordScale * ret.prepared.padX
  /\ ret.box[1] < ret.box[3]
  /\ ret.crop[1] > 0
  /\ ret.crop[3] < arg.imgW * CoordScale * ret.prepared.scale[1]
  /\ \A k \in 1..4 : RoundTripError(k) = 0

\* C17: the letterbox has padX >= 0 and padY >= 0, the scaled image fits the
\* canvas, and the scaled width and height are within one pixel of the image
\* width and height times the common scale.
C17_LetterboxFits ==
  fn \in {"prepareDetectorInput", "prepareOcrInput"} =>
    LET n == ret.scale[1]
        d == ret.scale[2]
    IN  /\ ret.padX >= 0
        /\ ret.padY >= 0
        /\ ret.padX + ret.scaledWidth <= ret.width
        /\ ret.padY + ret.scaledHeight <= ret.height
        /\ Abs(ret.scaledWidth * d - arg.imgW * n) <= d
        /\ Abs(ret.scaledHeight * d - arg.imgH * n) <= d

\* A 12 x 5 image in the 140 x 70 OCR canvas: scaled to 140 x 58, padded by 6
\* above.
C17_Witness ==
  /\ fn = "prepareOcrInput"
  /\ arg.imgW = 12
  /\ arg.imgH = 5
  /\ ret.scaledWidth = 140
  /\ ret.scaledHeight = 58
  /\ ret.padX = 0
  /\ ret.padY = 6

\* The order of the awaits of one call: capture, frame decoding, detector
\* session, detector inference, crop, crop decoding, OCR session, OCR
\* inference; a call may end after any of them but the crop.
StageOrder ==
  { <<"idle", "captureFrame">>,
    <<"captureFrame", "loadImage">>, <<"captureFrame", "done">>,
    <<"loadImage", "detectorCreate">>, <<"loadImage", "detectorRun">>,
    <<"loadImage", "done">>,
    <<"detectorCreate", "detectorRun">>, <<"detectorCreate", "done">>,
    <<"detectorRun", "cropPlate">>, <<"detectorRun", "done">>,
    <<"cropPlate", "ocrLoadImage">>,
    <<"ocrLoadImage", "ocrCreate">>, <<"ocrLoadImage", "ocrRun">>,
    <<"ocrLoadImage", "done">>,
    <<"ocrCreate", "ocrRun">>, <<"ocrCreate", "done">>,
    <<"ocrRun", "done">> }

\* C19: within one attempt the stages run in the order capture, detector
\* preprocessing, detector inference and decode, crop, OCR preprocessing, OCR
\* inference and decode, plate extraction; the crop and with it the OCR stages
\* are entered only by the completion of the detector inference with at least
\* one detection; each call is at one await at a time.
C19_StagesInOrder ==
  [][\A a \in Attempts :
       pc'[a] # pc[a] =>
         /\ <<pc[a], pc'[a]>> \in StageOrder
         /\ pc'[a] = "cropPlate" =>
              \E output \in DetectorOutputs :
                /\ DetectorRunDone(a, output)
                /\ \E i \in 1..Len(output) : output[i].score >= ScoreThreshold
         /\ pc'[a] = "done" /\ pc[a] = "ocrRun" =>
              \E decoded \in OcrOutputs : OcrRunDone(a, decoded) \/ OcrRunFailed(a)]_vars

\* The only attempt awaits the OCR inference, both sessions created on its
\* way.
C19_Witness ==
  /\ pc[1] = "ocrRun"
  /\ pc[2] = "idle"
  /\ detectorSessionRef
  /\ ocrSessionRef
  /\ snapshotUrl = UrlOf(1)

\* C20: whenever ocrStatus is "loading", the 15 s timer of the current attempt
\* is armed and has not fired.
C20_LoadingHasTimer ==
  ocrStatus = "loading" => (ocrTimeoutRef # NoTimer /\ ocrTimeoutRef \in timerPending)

\* C21: the crop rectangle passed to cropPlate lies inside the image,
\* 0 <= x1 <= x2 <= image.width and 0 <= y1 <= y2 <= image.height, also for
\* boxes in the letterbox padding, and the cropped canvas is at least 1 pixel
\* wide and high.
C21_CropInsideImage ==
  fn = "cropBox" =>
    LET den == CoordScale * ret.prepared.scale[1]
    IN  /\ 0 <= ret.crop[1]
        /\ ret.crop[1] <= ret.crop[3]
        /\ ret.crop[3] <= arg.imgW * den
        /\ 0 <= ret.crop[2]
        /\ ret.crop[2] <= ret.crop[4]
        /\ ret.crop[4] <= arg.imgH * den
        /\ ret.canvas.width >= 1
        /\ ret.canvas.height >= 1

\* C22: manual entry takes priority and has no other effect: a call of
\* handleDetectPlate made with the camera ready and a plateInput whose
\* normalized value is not empty sets detectedPlate and plateInput to that
\* value and ends; it arms no timer, creates and runs no session, leaves the
\* camera running and leaves ocrStatus, ocrError, ocrConfidence and
\* snapshotUrl as they were.
C22_ManualEntryOnly ==
  [][\A a \in Attempts :
       /\ (pc[a] = "idle" /\ pc'[a] # "idle") =>
            /\ trimmed'[a] = CondensedText(plateInput)
            /\ UNCHANGED <<reactVars, refVars, timerPending, detectorCreated,
                           ocrCreated>>
       /\ (pc[a] = "captureFrame" /\ pc'[a] # "captureFrame" /\ trimmed[a] # <<>>) =>
            /\ detectedPlate' = trimmed[a]
            /\ plateInput' = trimmed[a]
            /\ pc'[a] = "done"
            /\ UNCHANGED <<cameraReady, snapshotUrl, ocrStatus, ocrError,
                           ocrConfidence, refVars, timerPending, detectorCreated,
                           ocrCreated>>]_vars

C22_Witness ==
  /\ pc[1] = "done"
  /\ detectedPlate = <<"A">>
  /\ plateInput = <<"A">>
  /\ cameraReady
  /\ streamRef
  /\ ocrStatus = "idle"
  /\ snapshotUrl = NoUrl
  /\ timerPending = {}
  /\ ~detectorCreated

\* C25: when the condensed text (upper-cased, alphanumerics only) of length n
\* holds no plate-shaped run, extractPlate returns its first min(n, 8)
\* characters if n >= 5 and the empty string if n < 5; the token rules never
\* change the result.
C25_LooseFallback ==
  op = "extractPlate" =>
    LET c == CondensedText(rawText)
        n == Len(c)
    IN  (\A i \in 1..n : ~PlateShapedAt(c, i)) =>
          /\ result = IF n >= 5 THEN SubSeq(c, 1, Min2(n, 8)) ELSE <<>>
          /\ result = LooseMatch(c)

C25_Witness ==
  /\ op = "extractPlate"
  /\ Len(rawText) = MaxTextLen
  /\ " " \in Range(rawText)
  /\ \A i \in 1..Len(rawText) : ~PlateShapedAt(CondensedText(rawText), i)
  /\ Len(CondensedText(rawText)) = 6
  /\ result = CondensedText(rawText)

\* decodeOcrOutput of the slot-major output [1, S, 37] holding the scores of
\* arg.
SlotMajorDecode == decodeOcrOutput(SlotsFirstData(arg), <<1, Len(arg), Len(OCR_ALPHABET)>>)

\* C23 as stated: for every slot count S and every score grid,
\* decodeOcrOutput returns the same text and the same confidence for the
\* slot-major output [1, S, 37] and for the class-major output [1, 37, S]
\* holding the same scores transposed, ties resolving to the lowest class
\* index in both.
C23_LayoutsEquivalent ==
  fn \in {"classesFirst", "squareClassesFirst"} =>
    /\ ret = SlotMajorDecode
    /\ ret.text = SlotsText(arg)

\* C23: the same for every slot count S other than 37, the size of the
\* alphabet: the class-major output [1, 37, 37] is read as slot-major.
C23_LayoutsEquivalentUnlessSquare ==
  (fn \in {"classesFirst", "squareClassesFirst"} /\ Len(arg) # Len(OCR_ALPHABET)) =>
    /\ ret = SlotMajorDecode
    /\ ret.text = SlotsText(arg)

\* Three slots, two of them with tied scores: "1" tied with padding reads "1",
\* "0" tied with "A" and padding reads "0".
C23_Witness ==
  /\ fn = "classesFirst"
  /\ arg = << {1, 36}, {35, 36}, {0, 10, 36} >>
  /\ ret.text = <<"1", "Z", "0">>
  /\ ret = SlotMajorDecode

\* C24: an OCR output that is not 3-dimensional, or has 37 on neither its
\* middle nor its last axis, is decoded without failing, with the default 9
\* slots and 37 classes in slot-major order: the text has at most 9
\* characters of the alphabet and the confidence lies in [0, 100].
C24_ShapeMismatchDecodes ==
  fn \in {"mismatch", "mismatchTruncated"} =>
    /\ Len(ret.text) <= OcrMaxSlots
    /\ \A i \in 1..Len(ret.text) : ret.text[i] \in Range(OCR_ALPHABET) \ {OCR_PAD}
    /\ ret.confidence # NullFraction
    /\ ret.confidence[2] > 0
    /\ 0 <= ret.confidence[1]
    /\ ret.confidence[1] <= 100 * ret.confidence[2]
    /\ fn = "mismatch" =>
         LET S == Min2(Len(arg), OcrMaxSlots)
             first == SubSeq(arg, 1, S)
             product == TiesProduct(first)
         IN  /\ ret.text = SlotsText(first) \o [i \in 1..(OcrMaxSlots - S) |-> "0"]
             /\ ret.confidence[1] * product * OcrMaxSlots
                  = 100 * ConfidenceSumTimes(first, product) * ret.confidence[2]

\* Three slots given, the second padding: "A", "1", then six slots read
\* beyond the end of the data.
C24_Witness ==
  /\ fn = "mismatch"
  /\ arg = << {10}, {36}, {1, 36} >>
  /\ ret.text = <<"A", "1", "0", "0", "0", "0", "0", "0">>
  /\ ret.confidence[1] * 18 = 500 * ret.confidence[2]

\* C26: ocrConfidence is non-null only while ocrStatus is "success".
C26_ConfidenceOnlyOnSuccess ==
  ocrConfidence # NullConfidence => ocrStatus = "success"

\* C27: after stopCamera no MediaStream is held or live and cameraReady stays
\* false until a startCamera call that begins afterwards succeeds, also when
\* stopCamera runs while an earlier startCamera call is awaiting getUserMedia
\* or video.play().  While as many handleResumeCamera calls as can be are in
\* their 300 ms wait, the last of them has run stopCamera and no startCamera
\* call has begun since.
C27_StoppedUntilRestart ==
  resumeWaiting = MaxResumeWaiting => (~streamRef /\ ~cameraReady)

\* C29: for every video source size the captured frame is at most 960 wide
\* and 540 high, neither side exceeds the source's, and the aspect ratio is
\* kept within rounding (each side within half a pixel of the scaled
\* source); captureFrame returns null when the video element, the canvas,
\* the 2D context or the blob is not available.
C29_CaptureBounded ==
  fn = "captureFrame" =>
    LET sourceWidth == IF arg.videoWidth = 0 THEN DefaultSourceWidth ELSE arg.videoWidth
        sourceHeight == IF arg.videoHeight = 0 THEN DefaultSourceHeight ELSE arg.videoHeight
        frame == ret.frame
    IN  /\ (~ret.video \/ ~ret.canvas \/ ~ret.context \/ ~ret.blob) => ~frame.captured
        /\ frame.captured =>
             /\ frame.width \in 1..MaxCaptureWidth
             /\ frame.height \in 1..MaxCaptureHeight
             /\ frame.width <= sourceWidth
             /\ frame.height <= sourceHeight
             /\ 2 * Abs(frame.width * sourceHeight - frame.height * sourceWidth)
                  <= sourceWidth + sourceHeight

\* A 1280 x 961 source: limited by the height, 719 x 540.
C29_Witness ==
  /\ fn = "captureFrame"
  /\ arg = [videoWidth |-> 1280, videoHeight |-> 961]
  /\ ret.frame = [captured |-> TRUE, width |-> 719, height |-> 540]

\* C28: a late response of an earlier overlapping lookup never overwrites the
\* result of a later one (the completion of a handleLookup call made before
\* one that has completed changes none of lookupStatus, lookupError and
\* vehicleData), and vehicle data is displayed (infoData non-null) only while
\* lookupStatus is "success".
C28_LatestLookupWins ==
  [][/\ infoData' # NoVehicle => lookupStatus' = "success"
     /\ \A l \in Lookups :
          (/\ lookupPc[l] \notin {"idle", "done"}
           /\ lookupPc'[l] = "done"
           /\ \E later \in Lookups : later > l /\ lookupPc[later] = "done")
          => UNCHANGED <<lookupStatus, lookupError, vehicleData>>]_vars

\* C30: the DVLA route always answers with a JSON response and calls the
\* upstream registry only for a usable request: a body that is not JSON or
\* whose registration normalizes to the empty string gives 400 with no
\* upstream call, a missing API URL or key gives 501 with no upstream call, an
\* upstream fetch that throws gives 502, and otherwise the upstream status is
\* passed through with the registration sent in normalized form.
C30_RouteAlwaysAnswers ==
  fn = "POST" =>
    LET response == ret.response
        registration == IF arg.body.kind = "string"
                          THEN CondensedText(arg.body.text) ELSE <<>>
    IN  /\ response.kind = "json"
        /\ response.status =
             (IF registration = <<>> THEN 400
              ELSE IF ~arg.url \/ ~arg.key THEN 501
              ELSE IF ret.upstream.throws THEN 502
              ELSE ret.upstream.status)
        /\ response.called = (registration # <<>> /\ arg.url /\ arg.key)
        /\ response.called => response.sent = registration

====
